---- MODULE Spec2Model ----
(***************************************************************************)
(* Model of the Qazyna enrichment-plant dashboard (reacthon2026):          *)
(*   - the hazard keyword detector        (lib/hazard-detection)           *)
(*   - the water parser's merge by date   (lib/parsers/water)              *)
(*   - the upload route and the hazards route over the Prisma store        *)
(* Dates are calendar days (the store keeps them as UTC midnights), texts  *)
(* are sequences of one-character strings.                                 *)
(***************************************************************************)
EXTENDS Integers, Sequences, FiniteSets, TLC

VARIABLES
    hazardKeywords,  \* config.hazardKeywords: [high, medium, low] keyword lists
    text,            \* argument of detectHazardsFromText
    detected,        \* its result
    hpc,             \* "input" before the call, "done" after, "idle" when unused
    waterData,       \* parseWater: the rows pushed by the scan of the month groups
    dateMap,         \* parseWater: the records merged by date, in insertion order
    wpc,             \* "scanned" before the merge, "done" after, "idle" when unused
    db,              \* the Prisma store: one set of rows per table
    pre,             \* the store before the last request
    req,             \* the last request handled
    prevReq,         \* the request handled before it
    resp,            \* the response it returned
    nreq,            \* requests handled so far
    config,          \* config: the thresholds read from config/thresholds.json
    args,            \* the arguments of the last call of a pure function
    ret,             \* what it returned
    fpc              \* "ready" before the call, "done" after, "idle" when unused

hazardVars == <<hazardKeywords, text, detected, hpc>>

waterVars == <<waterData, dateMap, wpc>>

storeVars == <<db, pre, req, prevReq, resp, nreq>>

callVars == <<config, args, ret, fpc>>

vars == <<hazardVars, waterVars, storeVars, callVars>>

\* the parts of the state a specification does not use stay idle
HazardIdle ==
    /\ text = <<>>
    /\ detected = <<>>
    /\ hpc = "idle"

WaterIdle ==
    /\ waterData = <<>>
    /\ dateMap = <<>>
    /\ wpc = "idle"

CallIdle ==
    /\ config = <<>>
    /\ args = <<>>
    /\ ret = <<>>
    /\ fpc = "idle"

StoreIdle ==
    /\ db = <<>>
    /\ pre = <<>>
    /\ req = <<>>
    /\ prevReq = <<>>
    /\ resp = <<>>
    /\ nreq = 0

----------------------------------------------------------------------------
(* Bounds *)

MaxTextLen == 2
MaxKeywords == 2
MaxScanRows == 2
MaxRequests == 2
MaxAmount == 6
MaxDays == 4

----------------------------------------------------------------------------
(* Texts *)

\* null of a nullable number (the numbers of the model are naturals)
NULL == -1

\* null of a nullable string
NULLSTR == "null"

Alphabet == {"a", "b", "C"}

Texts == UNION {[1..n -> Alphabet] : n \in 0..MaxTextLen}

\* the keywords a configuration is built from: one a substring of another,
\* one written in upper case (as "СИЗ" in the shipped configuration)
KeywordPool == {<<"a", "b">>, <<"b">>, <<"C">>}

KeywordLists == UNION {[1..n -> KeywordPool] : n \in 0..MaxKeywords}

LowerChar(ch) ==
    CASE ch = "C" -> "c" [] ch = "M" -> "m" [] ch = "D" -> "d"
      [] ch = "J" -> "j" [] OTHER -> ch

\* String.prototype.toLowerCase
toLowerCase(s) == [i \in 1..Len(s) |-> LowerChar(s[i])]

\* String.prototype.includes
includes(s, sub) ==
    \E i \in 0..(Len(s) - Len(sub)) : SubSeq(s, i + 1, i + Len(sub)) = sub

----------------------------------------------------------------------------
(* detectHazardsFromText *)

KeywordMatches(lowerText, keyword) == includes(lowerText, toLowerCase(keyword))

\* the loop over one tier's keywords, from index i on: an entry per keyword
\* that occurs in the text and is not yet in matchedKeywords
RECURSIVE ScanTier(_, _, _, _, _, _)
ScanTier(keywords, i, severity, txt, matchedKeywords, hazards) ==
    IF i > Len(keywords) THEN hazards
    ELSE LET keyword == keywords[i] IN
         IF KeywordMatches(toLowerCase(txt), keyword) /\ keyword \notin matchedKeywords
         THEN ScanTier(keywords, i + 1, severity, txt,
                       matchedKeywords \cup {keyword},
                       Append(hazards, [description |-> txt,
                                        severity |-> severity,
                                        matchedKeyword |-> keyword]))
         ELSE ScanTier(keywords, i + 1, severity, txt, matchedKeywords, hazards)

HighMutantLast(txt) ==
    LET high == hazardKeywords.high
        hits == {i \in 1..Len(high) : KeywordMatches(toLowerCase(txt), high[i])}
    IN  IF hits = {} THEN <<>>
        ELSE LET i == CHOOSE j \in hits : \A k \in hits : k <= j
             IN  <<[description |-> txt, severity |-> "high", matchedKeyword |-> high[i]]>>

\* the high tier: the loop returns at the first keyword, in list order, that
\* occurs in the text
RECURSIVE HighLoop(_, _)
HighLoop(txt, i) ==
    IF i > Len(hazardKeywords.high) THEN <<>>
    ELSE IF KeywordMatches(toLowerCase(txt), hazardKeywords.high[i])
         THEN <<[description |-> txt, severity |-> "high",
                 matchedKeyword |-> hazardKeywords.high[i]]>>
         ELSE HighLoop(txt, i + 1)

ScanHigh(txt) == HighLoop(txt, 1)

ScanMediumMutantFirstOnly(txt) ==
    LET all == ScanTier(hazardKeywords.medium, 1, "medium", txt, {}, <<>>)
    IN  IF all = <<>> THEN <<>> ELSE <<all[1]>>

ScanMedium(txt) == ScanTier(hazardKeywords.medium, 1, "medium", txt, {}, <<>>)

ScanLow(txt) == ScanTier(hazardKeywords.low, 1, "low", txt, {}, <<>>)

detectMutantCumulative(txt) ==
    IF txt = <<>> THEN <<>>
    ELSE IF ScanHigh(txt) # <<>> THEN ScanHigh(txt)
    ELSE ScanMedium(txt) \o ScanLow(txt)

detectHazardsFromText(txt) ==
    IF txt = <<>> THEN <<>>
    ELSE IF ScanHigh(txt) # <<>> THEN ScanHigh(txt)
    ELSE IF ScanMedium(txt) # <<>> THEN ScanMedium(txt)
    ELSE ScanLow(txt)

----------------------------------------------------------------------------
(* parseWater: deduplication of the scanned rows by date *)

WaterDates == {1, 2}

\* cell values after parseNumeric: null or a number
WaterValues == {NULL, 1, 2}

MonthLabels == {"Jan 2026"}

\* a row the scan pushes: the date parsed, and not all of meterReading,
\* actualDaily and actualHourly null
ScannedRows ==
    {r \in [date : WaterDates, meterReading : WaterValues, actualDaily : WaterValues,
            actualHourly : WaterValues, nominalDaily : WaterValues,
            monthLabel : MonthLabels] :
        ~(r.meterReading = NULL /\ r.actualDaily = NULL /\ r.actualHourly = NULL)}

\* a ?? b, on numbers and on strings
Coalesce(a, b) == IF a # NULL THEN a ELSE b

CoalesceStr(a, b) == IF a # NULLSTR THEN a ELSE b

MergeMutantKeepFirst(record, existing) ==
    [date |-> record.date,
     meterReading |-> Coalesce(existing.meterReading, record.meterReading),
     actualDaily |-> Coalesce(existing.actualDaily, record.actualDaily),
     actualHourly |-> Coalesce(existing.actualHourly, record.actualHourly),
     nominalDaily |-> Coalesce(existing.nominalDaily, record.nominalDaily),
     monthLabel |-> CoalesceStr(existing.monthLabel, record.monthLabel)]

\* the record stored for a date already in dateMap
MergeRecord(record, existing) ==
    [date |-> record.date,
     meterReading |-> Coalesce(record.meterReading, existing.meterReading),
     actualDaily |-> Coalesce(record.actualDaily, existing.actualDaily),
     actualHourly |-> Coalesce(record.actualHourly, existing.actualHourly),
     nominalDaily |-> Coalesce(record.nominalDaily, existing.nominalDaily),
     monthLabel |-> CoalesceStr(record.monthLabel, existing.monthLabel)]

DateMapSetMutantReplace(map, record) ==
    IF \E i \in 1..Len(map) : map[i].date = record.date
    THEN [i \in 1..Len(map) |-> IF map[i].date = record.date THEN record ELSE map[i]]
    ELSE Append(map, record)

\* dateMap.set(record.date, ...): a Map keeps the place of a key it already has
DateMapSet(map, record) ==
    IF \E i \in 1..Len(map) : map[i].date = record.date
    THEN [i \in 1..Len(map) |->
            IF map[i].date = record.date THEN MergeRecord(record, map[i]) ELSE map[i]]
    ELSE Append(map, record)

RECURSIVE DeduplicateByDate(_, _, _)
DeduplicateByDate(rows, i, map) ==
    IF i > Len(rows) THEN map
    ELSE DeduplicateByDate(rows, i + 1, DateMapSet(map, rows[i]))

InitWater ==
    /\ HazardIdle
    /\ CallIdle
    /\ StoreIdle
    /\ hazardKeywords = [high |-> <<>>, medium |-> <<>>, low |-> <<>>]
    /\ \E n \in 0..MaxScanRows : waterData \in [1..n -> ScannedRows]
    /\ dateMap = <<>>
    /\ wpc = "scanned"

MergeWater ==
    /\ wpc = "scanned"
    /\ dateMap' = DeduplicateByDate(waterData, 1, <<>>)
    /\ wpc' = "done"
    /\ UNCHANGED waterData
    /\ UNCHANGED <<hazardVars, storeVars, callVars>>

NextWater == MergeWater

SpecWater == InitWater /\ [][NextWater]_vars

----------------------------------------------------------------------------
(* Claims about the water merge *)

WaterFields == {"meterReading", "actualDaily", "actualHourly", "nominalDaily"}

\* the indices, in scan order, of the rows of date d with field f populated
Populated(d, f) ==
    {i \in 1..Len(waterData) : waterData[i].date = d /\ waterData[i][f] # NULL}

FirstNonNull(d, f) ==
    IF Populated(d, f) = {} THEN NULL
    ELSE waterData[CHOOSE i \in Populated(d, f) : \A j \in Populated(d, f) : i <= j][f]

LastNonNull(d, f) ==
    IF Populated(d, f) = {} THEN NULL
    ELSE waterData[CHOOSE i \in Populated(d, f) : \A j \in Populated(d, f) : j <= i][f]

\* C10 (as stated): each field of the merged record of a date is the first
\* non-null value of that field in scan order; a later non-null value does
\* not replace an earlier one.
C10_FirstNonNullWins ==
    wpc = "done" =>
        \A k \in 1..Len(dateMap) : \A f \in WaterFields :
            dateMap[k][f] = FirstNonNull(dateMap[k].date, f)

\* C10 (amended): each field of the merged record of a date is the last
\* non-null value of that field in scan order, null when no row of the date
\* has it; a null of a later row never replaces a populated value.
C10_LastNonNullWins ==
    wpc = "done" =>
        \A k \in 1..Len(dateMap) : \A f \in WaterFields :
            dateMap[k][f] = LastNonNull(dateMap[k].date, f)

\* C10 witness: two rows of one date, a field populated in both with different
\* values, another populated in the first row only
C10_Witness ==
    /\ wpc = "done"
    /\ Len(waterData) = 2
    /\ waterData[1].date = waterData[2].date
    /\ waterData[1].meterReading = 1 /\ waterData[2].meterReading = 2
    /\ waterData[1].actualDaily = 1 /\ waterData[2].actualDaily = NULL
    /\ Len(dateMap) = 1
    /\ dateMap[1].meterReading = 2
    /\ dateMap[1].actualDaily = 1

\* C11: the merged output has exactly one record per distinct date of the
\* scanned rows and none for any other date, and a numeric field of a merged
\* record is null only if it is null in every scanned row of that date.
C11_NoPopulatedFieldLost ==
    wpc = "done" =>
        /\ \A i \in 1..Len(waterData) :
              Cardinality({k \in 1..Len(dateMap) : dateMap[k].date = waterData[i].date}) = 1
        /\ \A k \in 1..Len(dateMap) :
              /\ \E i \in 1..Len(waterData) : waterData[i].date = dateMap[k].date
              /\ \A f \in WaterFields :
                    dateMap[k][f] = NULL => Populated(dateMap[k].date, f) = {}

\* C11 witness: {meterReading 1, actualDaily null} merged with
\* {meterReading null, actualDaily 2} of the same date gives {1, 2}
C11_Witness ==
    /\ wpc = "done"
    /\ Len(waterData) = 2
    /\ waterData[1].date = waterData[2].date
    /\ waterData[1].meterReading = 1 /\ waterData[1].actualDaily = NULL
    /\ waterData[2].meterReading = NULL /\ waterData[2].actualDaily = 2
    /\ Len(dateMap) = 1
    /\ dateMap[1].meterReading = 1
    /\ dateMap[1].actualDaily = 2

----------------------------------------------------------------------------
(* Specification of the detector: any text, any keyword configuration *)

InitHazard ==
    /\ WaterIdle
    /\ CallIdle
    /\ StoreIdle
    /\ hazardKeywords \in [high : KeywordLists, medium : KeywordLists, low : KeywordLists]
    /\ text \in Texts
    /\ detected = <<>>
    /\ hpc = "input"

Detect ==
    /\ hpc = "input"
    /\ detected' = detectHazardsFromText(text)
    /\ hpc' = "done"
    /\ UNCHANGED <<hazardKeywords, text>>
    /\ UNCHANGED <<waterVars, storeVars, callVars>>

NextHazard == Detect

SpecHazard == InitHazard /\ [][NextHazard]_vars

----------------------------------------------------------------------------
(* Claims about the detector *)

Range(s) == {s[i] : i \in 1..Len(s)}

TierHits(keywords, txt) ==
    {k \in Range(keywords) : includes(toLowerCase(txt), toLowerCase(k))}

\* C5: a text containing (case-insensitively) at least one high-tier keyword
\* yields exactly one entry, of severity high, whose matchedKeyword is the
\* first keyword of the high list that occurs in the text, whatever other
\* keywords of any tier occur.
C5_HighFirstOnly ==
    (hpc = "done" /\ TierHits(hazardKeywords.high, text) # {}) =>
        /\ Len(detected) = 1
        /\ detected[1].severity = "high"
        /\ \E i \in 1..Len(hazardKeywords.high) :
              /\ hazardKeywords.high[i] = detected[1].matchedKeyword
              /\ hazardKeywords.high[i] \in TierHits(hazardKeywords.high, text)
              /\ \A j \in 1..(i - 1) :
                    hazardKeywords.high[j] \notin TierHits(hazardKeywords.high, text)

\* C5 witness: two high keywords, a medium and a low keyword all occur, and the
\* one returned stands later in the text than another high keyword
C5_Witness ==
    /\ hpc = "done"
    /\ Cardinality(TierHits(hazardKeywords.high, text)) = 2
    /\ TierHits(hazardKeywords.medium, text) # {}
    /\ TierHits(hazardKeywords.low, text) # {}
    /\ Len(detected) = 1
    /\ hazardKeywords.high = <<<<"C">>, <<"b">>>>
    /\ text = <<"b", "C">>
    /\ detected[1].matchedKeyword = <<"C">>

\* C6: with no high keyword in the text, there is one medium entry per
\* distinct medium keyword that occurs, each keyword once, and when a medium
\* keyword occurs no low entry is returned even if low keywords occur.
C6_MediumPerKeyword ==
    (hpc = "done" /\ TierHits(hazardKeywords.high, text) = {}) =>
        LET hits == TierHits(hazardKeywords.medium, text)
            med == {i \in 1..Len(detected) : detected[i].severity = "medium"}
        IN  /\ {detected[i].matchedKeyword : i \in med} = hits
            /\ Cardinality(med) = Cardinality(hits)
            /\ hits # {} => \A i \in 1..Len(detected) : detected[i].severity # "low"

\* C6 witness: two distinct medium keywords and a low keyword occur, no high
C6_Witness ==
    /\ hpc = "done"
    /\ TierHits(hazardKeywords.high, text) = {}
    /\ Cardinality(TierHits(hazardKeywords.medium, text)) = 2
    /\ TierHits(hazardKeywords.low, text) # {}
    /\ Len(detected) = 2

HighestTier(txt) ==
    IF TierHits(hazardKeywords.high, txt) # {} THEN "high"
    ELSE IF TierHits(hazardKeywords.medium, txt) # {} THEN "medium"
    ELSE IF TierHits(hazardKeywords.low, txt) # {} THEN "low"
    ELSE "none"

\* C7: all entries of one call carry the same severity, the highest tier with
\* a matching keyword; every description is the input text verbatim; and the
\* result is empty exactly when the text is empty or no keyword of any tier
\* matches.
C7_SingleTierVerbatim ==
    hpc = "done" =>
        /\ \A i \in 1..Len(detected) :
              /\ detected[i].severity = HighestTier(text)
              /\ detected[i].description = text
        /\ (detected = <<>>) <=> (text = <<>> \/ HighestTier(text) = "none")

\* C7 witness: an upper-case text matching only low keywords twice over
C7_Witness ==
    /\ hpc = "done"
    /\ HighestTier(text) = "low"
    /\ Len(detected) = 2
    /\ text # toLowerCase(text)

----------------------------------------------------------------------------
(* The Prisma store *)

\* null of a nullable text: the parsers and routes never store an empty text
NULLTEXT == <<>>

\* null of a nullable id (sourceRefId of a manual hazard); ids count from 1
NOID == 0

\* Map.get of a key that is not there
UNDEFINED == -2

\* ids counts the ids generated so far: a generated id is never given twice
EmptyDb ==
    [upload |-> {}, techJournalShift |-> {}, techProductivity |-> {},
     techDowntime |-> {}, waterDaily |-> {}, downtimeDaily |-> {}, hazard |-> {},
     ids |-> 0]

\* @default(cuid())
NewId(d) == d.ids + 1

\* create: the row with a generated id added to its table
Insert(d, table, row) ==
    [d EXCEPT ![table] = @ \cup {[id |-> NewId(d)] @@ row}, !.ids = @ + 1]

\* the elements of a sequence in order of first occurrence (a Set filled in
\* that order and read back with Array.from)
RECURSIVE Distinct(_, _, _)
Distinct(seq, i, acc) ==
    IF i > Len(seq) THEN acc
    ELSE Distinct(seq, i + 1,
                  IF \E j \in 1..Len(acc) : acc[j] = seq[i] THEN acc
                  ELSE Append(acc, seq[i]))

DatesOf(data) == [i \in 1..Len(data) |-> data[i].date]

ShiftKeysOf(data) == [i \in 1..Len(data) |-> <<data[i].date, data[i].shiftNumber>>]

\* createManyInChunks: the slices handed to createMany, in order
RECURSIVE Chunks(_, _)
Chunks(items, chunkSize) ==
    IF Len(items) = 0 THEN <<>>
    ELSE IF Len(items) <= chunkSize THEN <<items>>
    ELSE <<SubSeq(items, 1, chunkSize)>>
         \o Chunks(SubSeq(items, chunkSize + 1, Len(items)), chunkSize)

ProductivityChunk == 1000

DowntimeChunk == 500

Op(name, arg) == [op |-> name, arg |-> arg]

\* rows of createMany, each given a fresh id, added to a table
RECURSIVE CreateMany(_, _, _, _)
CreateMany(d, table, rows, i) ==
    IF i > Len(rows) THEN d
    ELSE CreateMany(Insert(d, table, rows[i]), table, rows, i + 1)

\* the hazards of a downtime record: none without reason text
HazardsOf(record) ==
    IF record.reasonText # NULLTEXT THEN detectHazardsFromText(record.reasonText)
    ELSE <<>>

WithHazards(data) == SelectSeq(data, LAMBDA r : HazardsOf(r) # <<>>)

NoHazards(data) == SelectSeq(data, LAMBDA r : HazardsOf(r) = <<>>)

\* the rows of hazard.createMany for one downtime row just created
HazardRows(record, sourceType, downtimeId) ==
    LET hazards == HazardsOf(record) IN
    [i \in 1..Len(hazards) |->
        [date |-> record.date,
         sourceType |-> sourceType,
         sourceRefId |-> downtimeId,
         description |-> hazards[i].description,
         severity |-> hazards[i].severity,
         status |-> "open",
         tags |-> hazards[i].matchedKeyword]]

RECURSIVE Concat(_, _)
Concat(seqs, i) == IF i > Len(seqs) THEN <<>> ELSE seqs[i] \o Concat(seqs, i + 1)

----------------------------------------------------------------------------
(* POST /api/upload: the store calls of one import, in the order awaited *)

\* millProductivityByShift.get(key): the value set last for the key
MillFor(result, key) ==
    LET mill == result.millProductivityTph.data
        idx == {i \in 1..Len(mill) : <<mill[i].date, mill[i].shiftNumber>> = key}
    IN  IF idx = {} THEN UNDEFINED
        ELSE mill[CHOOSE i \in idx : \A j \in idx : j <= i].valueTph

TechUniqueDates(result) ==
    Distinct(DatesOf(result.productivity.data) \o DatesOf(result.downtime.data), 1, <<>>)

TechShiftKeys(result) ==
    Distinct(ShiftKeysOf(result.productivity.data) \o ShiftKeysOf(result.downtime.data)
             \o ShiftKeysOf(result.millProductivityTph.data), 1, <<>>)

TechOps(result) ==
    LET uniqueDates == TechUniqueDates(result)
        shiftKeys == TechShiftKeys(result)
        prodChunks == Chunks(result.productivity.data, ProductivityChunk)
        downChunks == Chunks(NoHazards(result.downtime.data), DowntimeChunk)
        withHazards == WithHazards(result.downtime.data)
    IN  Concat([i \in 1..Len(uniqueDates) |->
                  <<Op("findShifts", uniqueDates[i]),
                    Op("deleteTechHazards", uniqueDates[i]),
                    Op("deleteTechProductivity", uniqueDates[i]),
                    Op("deleteTechDowntime", uniqueDates[i])>>], 1)
        \o [i \in 1..Len(shiftKeys) |->
              Op("upsertShift", [key |-> shiftKeys[i],
                                 millProductivityTph |-> MillFor(result, shiftKeys[i])])]
        \o [i \in 1..Len(prodChunks) |-> Op("createTechProductivity", prodChunks[i])]
        \o [i \in 1..Len(downChunks) |-> Op("createTechDowntimeMany", downChunks[i])]
        \o Concat([i \in 1..Len(withHazards) |->
                     <<Op("createTechDowntime", withHazards[i]),
                       Op("createTechHazards", withHazards[i])>>], 1)

WaterOps(result) ==
    [i \in 1..Len(result.data) |-> Op("upsertWater", result.data[i])]

DowntimeUniqueDates(result) == Distinct(DatesOf(result.data), 1, <<>>)

DowntimeOps(result) ==
    LET dates == {DowntimeUniqueDates(result)[i] : i \in 1..Len(DowntimeUniqueDates(result))}
        chunks == Chunks(NoHazards(result.data), DowntimeChunk)
        withHazards == WithHazards(result.data)
    IN  (IF dates # {}
         THEN <<Op("deleteDailyHazards", dates), Op("deleteDowntimeDaily", dates)>>
         ELSE <<>>)
        \o [i \in 1..Len(chunks) |-> Op("createDowntimeDailyMany", chunks[i])]
        \o Concat([i \in 1..Len(withHazards) |->
                     <<Op("createDowntimeDaily", withHazards[i]),
                       Op("createDailyHazards", withHazards[i])>>], 1)

ImportOps(fileType, result) ==
    CASE fileType = "tech_journal" -> TechOps(result)
      [] fileType = "water" -> WaterOps(result)
      [] fileType = "downtime" -> DowntimeOps(result)

----------------------------------------------------------------------------
(* the effect of each store call; m holds the store and the handler's locals *)

TechProductivityRow(m, record) ==
    [techShiftId |-> m.shiftIdByKey[<<record.date, record.shiftNumber>>],
     hour |-> record.hour,
     millLine |-> record.millLine,
     valuePct |-> record.valuePct]

TechDowntimeRow(m, record) ==
    [techShiftId |-> m.shiftIdByKey[<<record.date, record.shiftNumber>>],
     equipment |-> record.equipment,
     timeFrom |-> record.timeFrom,
     timeTo |-> record.timeTo,
     minutes |-> record.minutes,
     reasonText |-> record.reasonText]

DowntimeDailyRow(record, uploadId) ==
    [date |-> record.date,
     equipment |-> record.equipment,
     reasonText |-> record.reasonText,
     minutes |-> record.minutes,
     classification |-> record.classification,
     sourceUploadId |-> uploadId]

FindShifts(m, date) ==
    [m EXCEPT !.shiftIds = {sh.id : sh \in {x \in m.db.techJournalShift : x.date = date}}]

\* the tech-journal import that leaves the hazards of the date in place
DeleteTechHazardsMutantSkip(m, date) == m

DeleteTechHazardsMutantAnySource(m, date) ==
    IF m.shiftIds = {} THEN m
    ELSE [m EXCEPT !.db.hazard = {h \in @ : ~(h.date = date)}]

DeleteTechHazards(m, date) ==
    IF m.shiftIds = {} THEN m
    ELSE [m EXCEPT !.db.hazard = {h \in @ : ~(h.sourceType = "tech_journal" /\ h.date = date)}]

DeleteTechProductivity(m) ==
    IF m.shiftIds = {} THEN m
    ELSE [m EXCEPT !.db.techProductivity = {r \in @ : r.techShiftId \notin m.shiftIds}]

DeleteTechDowntime(m) ==
    IF m.shiftIds = {} THEN m
    ELSE [m EXCEPT !.db.techDowntime = {r \in @ : r.techShiftId \notin m.shiftIds}]

UpsertShift(m, key, millProductivityTph, uploadId) ==
    LET existing == {x \in m.db.techJournalShift :
                        x.date = key[1] /\ x.shiftNumber = key[2]}
    IN  IF existing # {}
        THEN LET old == CHOOSE x \in existing : TRUE
                 new == [old EXCEPT !.sourceUploadId = uploadId,
                                    !.millProductivityTph =
                                        IF millProductivityTph # UNDEFINED
                                        THEN millProductivityTph ELSE @]
             IN  [m EXCEPT !.db.techJournalShift = (@ \ {old}) \cup {new},
                           !.shiftIdByKey = (key :> old.id) @@ @]
        ELSE [m EXCEPT !.db = Insert(@, "techJournalShift",
                               [date |-> key[1], shiftNumber |-> key[2],
                                sourceUploadId |-> uploadId,
                                millProductivityTph |->
                                    IF millProductivityTph # UNDEFINED
                                    THEN millProductivityTph ELSE NULL]),
                       !.shiftIdByKey = (key :> NewId(m.db)) @@ @]

CreateOne(m, table, row) ==
    [m EXCEPT !.db = Insert(@, table, row), !.downtimeId = NewId(m.db)]

UpsertWater(m, record, uploadId) ==
    LET existing == {x \in m.db.waterDaily : x.date = record.date}
        fields == [meterReading |-> record.meterReading,
                   actualDaily |-> record.actualDaily,
                   actualHourly |-> record.actualHourly,
                   nominalDaily |-> record.nominalDaily,
                   monthLabel |-> record.monthLabel,
                   sourceUploadId |-> uploadId]
    IN  IF existing # {}
        THEN LET old == CHOOSE x \in existing : TRUE
             IN  [m EXCEPT !.db.waterDaily =
                      (@ \ {old}) \cup {[id |-> old.id, date |-> old.date] @@ fields}]
        ELSE [m EXCEPT !.db = Insert(@, "waterDaily", [date |-> record.date] @@ fields)]

DeleteDailyHazards(m, dates) ==
    [m EXCEPT !.db.hazard = {h \in @ : ~(h.sourceType = "downtime" /\ h.date \in dates)}]

DeleteDowntimeDailyMutantSkip(m, dates) == m

DeleteDowntimeDaily(m, dates) ==
    [m EXCEPT !.db.downtimeDaily = {r \in @ : r.date \notin dates}]

StoreCall(m, o, uploadId) ==
    CASE o.op = "findShifts" -> FindShifts(m, o.arg)
      [] o.op = "deleteTechHazards" -> DeleteTechHazards(m, o.arg)
      [] o.op = "deleteTechProductivity" -> DeleteTechProductivity(m)
      [] o.op = "deleteTechDowntime" -> DeleteTechDowntime(m)
      [] o.op = "upsertShift" ->
            UpsertShift(m, o.arg.key, o.arg.millProductivityTph, uploadId)
      [] o.op = "createTechProductivity" ->
            [m EXCEPT !.db = CreateMany(@, "techProductivity",
                  [i \in 1..Len(o.arg) |-> TechProductivityRow(m, o.arg[i])], 1)]
      [] o.op = "createTechDowntimeMany" ->
            [m EXCEPT !.db = CreateMany(@, "techDowntime",
                  [i \in 1..Len(o.arg) |-> TechDowntimeRow(m, o.arg[i])], 1)]
      [] o.op = "createTechDowntime" ->
            CreateOne(m, "techDowntime", TechDowntimeRow(m, o.arg))
      [] o.op = "createTechHazards" ->
            [m EXCEPT !.db = CreateMany(@, "hazard",
                  HazardRows(o.arg, "tech_journal", m.downtimeId), 1)]
      [] o.op = "upsertWater" -> UpsertWater(m, o.arg, uploadId)
      [] o.op = "deleteDailyHazards" -> DeleteDailyHazards(m, o.arg)
      [] o.op = "deleteDowntimeDaily" -> DeleteDowntimeDaily(m, o.arg)
      [] o.op = "createDowntimeDailyMany" ->
            [m EXCEPT !.db = CreateMany(@, "downtimeDaily",
                  [i \in 1..Len(o.arg) |-> DowntimeDailyRow(o.arg[i], uploadId)], 1)]
      [] o.op = "createDowntimeDaily" ->
            CreateOne(m, "downtimeDaily", DowntimeDailyRow(o.arg, uploadId))
      [] o.op = "createDailyHazards" ->
            [m EXCEPT !.db = CreateMany(@, "hazard",
                  HazardRows(o.arg, "downtime", m.downtimeId), 1)]

\* the first k store calls of an import
RECURSIVE RunOps(_, _, _, _, _)
RunOps(m, ops, i, k, uploadId) ==
    IF i > k \/ i > Len(ops) THEN m
    ELSE RunOps(StoreCall(m, ops[i], uploadId), ops, i + 1, k, uploadId)

----------------------------------------------------------------------------
(* POST /api/upload *)

RowsParsed(fileType, result) ==
    IF fileType = "tech_journal"
    THEN result.productivity.rowsParsed + result.millProductivityTph.rowsParsed
         + result.downtime.rowsParsed
    ELSE result.rowsParsed

WarningsCount(fileType, result) ==
    IF fileType = "tech_journal"
    THEN result.productivity.warnings + result.millProductivityTph.warnings
         + result.downtime.warnings
    ELSE result.warnings

UpdateUpload(d, uploadId, status, rowsParsed, warningsCount, errorMessage) ==
    [d EXCEPT !.upload =
        {IF u.id = uploadId
         THEN [u EXCEPT !.status = status, !.rowsParsed = rowsParsed,
                        !.warningsCount = warningsCount, !.errorMessage = errorMessage]
         ELSE u : u \in @}]

NoFault == [buffer |-> FALSE, at |-> 0, catchUpdate |-> FALSE]

\* what may throw after the upload record is created: reading the file
\* (buffer), the at-th store call of the import (the update to completed
\* counts as the call after the last), and the update to failed in the catch
Faults(fileType, wb) ==
    LET n == IF wb.corrupt THEN 0 ELSE Len(ImportOps(fileType, wb.result)) + 1
    IN  {[buffer |-> TRUE, at |-> 0, catchUpdate |-> FALSE]}
        \cup {[buffer |-> FALSE, at |-> k, catchUpdate |-> c] :
                 k \in 1..n, c \in BOOLEAN}
        \cup (IF wb.corrupt
              THEN {[buffer |-> FALSE, at |-> 0, catchUpdate |-> TRUE]} ELSE {})

\* catch (error): the outer catch touches no record
OuterCatch(d) ==
    [db |-> d, resp |-> [status |-> 500, error |-> "Failed to process upload"]]

CatchMutantNoUpdate(d, uploadId, errorMessage, updateThrows) ==
    [db |-> d,
     resp |-> [status |-> 500, error |-> "Failed to parse file", details |-> errorMessage]]

\* catch (parseError): the record is marked failed, unless that update throws
\* in its turn and the outer catch takes over
CatchParseError(d, uploadId, errorMessage, updateThrows) ==
    IF updateThrows THEN OuterCatch(d)
    ELSE [db |-> UpdateUpload(d, uploadId, "failed", 0, 0, errorMessage),
          resp |-> [status |-> 500, error |-> "Failed to parse file",
                    details |-> errorMessage]]

\* the handler from the creation of the upload record to its response
HandleUpload(d, fileType, wb, fault) ==
    LET uploadId == NewId(d)
        d0 == Insert(d, "upload",
                     [type |-> fileType, status |-> "processing", rowsParsed |-> 0,
                      warningsCount |-> 0, errorMessage |-> NULLSTR])
        m0 == [db |-> d0, shiftIds |-> {}, shiftIdByKey |-> <<>>, downtimeId |-> NOID]
        ops == IF wb.corrupt THEN <<>> ELSE ImportOps(fileType, wb.result)
        thrown == wb.corrupt \/ fault.at # 0
        done == IF fault.at # 0 THEN fault.at - 1 ELSE Len(ops)
        m1 == RunOps(m0, ops, 1, done, uploadId)
        errorMessage == IF wb.corrupt THEN "File is corrupted" ELSE "Store call failed"
    IN  IF fault.buffer THEN OuterCatch(d0)
        ELSE IF thrown
        THEN CatchParseError(m1.db, uploadId, errorMessage, fault.catchUpdate)
        ELSE [db |-> UpdateUpload(m1.db, uploadId, "completed",
                                  RowsParsed(fileType, wb.result),
                                  WarningsCount(fileType, wb.result), NULLSTR),
              resp |-> [status |-> 200, success |-> TRUE, uploadId |-> uploadId,
                        rowsParsed |-> RowsParsed(fileType, wb.result),
                        warningsCount |-> WarningsCount(fileType, wb.result)]]

----------------------------------------------------------------------------
(* Workbooks, by what the parsers return for them *)

ParseResult(data, warnings) ==
    [data |-> data, warnings |-> warnings, rowsParsed |-> Len(data)]

Productivity(date, shiftNumber, hour, millLine, valuePct) ==
    [date |-> date, shiftNumber |-> shiftNumber, hour |-> hour,
     millLine |-> millLine, valuePct |-> valuePct]

TechDowntime(date, shiftNumber, equipment, timeFrom, minutes, reasonText) ==
    [date |-> date, shiftNumber |-> shiftNumber, equipment |-> equipment,
     timeFrom |-> timeFrom, timeTo |-> NULLSTR, minutes |-> minutes,
     reasonText |-> reasonText]

DowntimeDaily(date, equipment, reasonText, minutes, classification) ==
    [date |-> date, equipment |-> equipment, reasonText |-> reasonText,
     minutes |-> minutes, classification |-> classification]

Water(date, meterReading, actualDaily, actualHourly, nominalDaily) ==
    [date |-> date, meterReading |-> meterReading, actualDaily |-> actualDaily,
     actualHourly |-> actualHourly, nominalDaily |-> nominalDaily,
     monthLabel |-> "Jan 2026"]

Workbook(result) == [corrupt |-> FALSE, result |-> result]

Corrupt(result) == [corrupt |-> TRUE, result |-> result]

TechResult(productivity, mill, millWarnings, downtime) ==
    [productivity |-> ParseResult(productivity, 0),
     millProductivityTph |-> ParseResult(mill, millWarnings),
     downtime |-> ParseResult(downtime, 0)]

\* sheet "01.01.26cm1": hour rows 24 and 0 of mill line 1, cell U17, one
\* downtime record whose reason holds a high keyword
TechSheetA ==
    TechResult(<<Productivity(1, 1, 0, 1, 80), Productivity(1, 1, 0, 1, 90)>>,
               <<[date |-> 1, shiftNumber |-> 1, valueTph |-> 5]>>, 0,
               <<TechDowntime(1, 1, "No1", "08:00", 30, <<"a", "b">>)>>)

\* sheets "01.01.26cm2" and "02.01.26cm1": no cell U17, downtime records with
\* two medium keywords, with no reason text and with one medium keyword
TechSheetsB ==
    TechResult(<<Productivity(1, 2, 1, 1, 70), Productivity(2, 1, 1, 2, 60)>>,
               <<>>, 0,
               <<TechDowntime(2, 1, "No2", NULLSTR, NULL, <<"b", "C">>),
                 TechDowntime(1, 2, "No1", NULLSTR, 10, NULLTEXT),
                 TechDowntime(1, 2, "No3", "20:00", 15, <<"C">>)>>)

\* sheet "02.01.26cm2": only cell U17, not numeric
TechSheetMillOnly ==
    TechResult(<<>>, <<[date |-> 2, shiftNumber |-> 2, valueTph |-> NULL]>>, 1, <<>>)

TechWorkbooks ==
    {Workbook(TechSheetA), Workbook(TechSheetsB), Workbook(TechSheetMillOnly),
     Workbook(TechResult(<<>>, <<>>, 0, <<>>)), Corrupt(TechSheetA)}

DowntimeBookA ==
    ParseResult(<<DowntimeDaily(1, "MShR1", <<"a", "b">>, 30, "M"),
                  DowntimeDaily(1, "OF", NULLTEXT, 10, NULLSTR)>>, 0)

DowntimeBookB ==
    ParseResult(<<DowntimeDaily(2, "MShR1", <<"b", "C">>, NULL, "E"),
                  DowntimeDaily(1, "DSK", <<"a">>, 5, NULLSTR)>>, 1)

DowntimeWorkbooks ==
    {Workbook(DowntimeBookA), Workbook(DowntimeBookB), Workbook(ParseResult(<<>>, 0)),
     Corrupt(DowntimeBookA)}

WaterBookA == ParseResult(<<Water(1, 1, 2, NULL, 2)>>, 0)

WaterBookB ==
    [data |-> <<Water(2, 3, NULL, 1, NULL), Water(1, 2, 3, NULL, 2)>>,
     warnings |-> 0, rowsParsed |-> 3]

WaterWorkbooks ==
    {Workbook(WaterBookA), Workbook(WaterBookB),
     Workbook([data |-> <<>>, warnings |-> 1, rowsParsed |-> 0]), Corrupt(WaterBookA)}

FileTypes == {"tech_journal", "water", "downtime"}

Workbooks(fileType) ==
    CASE fileType = "tech_journal" -> TechWorkbooks
      [] fileType = "water" -> WaterWorkbooks
      [] fileType = "downtime" -> DowntimeWorkbooks

\* the keyword configuration the store specifications run with
StoreKeywords ==
    [high |-> <<<<"a", "b">>>>, medium |-> <<<<"b">>, <<"C">>>>, low |-> <<<<"a">>>>]

\* scripts/seed.ts: every table cleared, then the three case_data workbooks
\* imported by the same inserts as the route's
SeedDb ==
    LET t == HandleUpload(EmptyDb, "tech_journal", Workbook(TechSheetsB), NoFault).db
        w == HandleUpload(t, "water", Workbook(WaterBookA), NoFault).db
    IN  HandleUpload(w, "downtime", Workbook(DowntimeBookA), NoFault).db

----------------------------------------------------------------------------
(* /api/hazards: POST and PATCH *)

\* a value that `x && ...` and `!x` take for absent
Falsy(x) == x \in {NULLSTR, ""}

PostBodies ==
    [date : {NULL, 1}, description : {NULLTEXT, <<"a", "b">>},
     severity : {"medium"}, tags : {NULLTEXT, <<"C">>}]

HazardPost(d, body) ==
    IF body.date = NULL \/ body.description = NULLTEXT \/ Falsy(body.severity)
    THEN [db |-> d, resp |-> [status |-> 400, error |-> "Missing required fields"]]
    ELSE LET hazard == [date |-> body.date, sourceType |-> "manual",
                        sourceRefId |-> NOID, description |-> body.description,
                        severity |-> body.severity, status |-> "open",
                        tags |-> body.tags]
         IN  [db |-> Insert(d, "hazard", hazard),
              resp |-> [status |-> 200, hazard |-> [id |-> NewId(d)] @@ hazard]]

\* ids a PATCH may name: none, a stored hazard's, one no hazard has
PatchIds(d) == {NOID, NewId(d)} \cup {h.id : h \in d.hazard}

PatchBodies(d) ==
    [id : PatchIds(d), status : {NULLSTR, "open", "closed", "archived"},
     severity : {NULLSTR, "low"}, description : {NULLTEXT, <<"C">>}]

PatchMutantAllFields(hazard, body) ==
    [hazard EXCEPT !.status = body.status, !.severity = body.severity,
                   !.description = body.description]

\* data: { ...(status && { status }), ...(severity && { severity }),
\*         ...(description && { description }) }
PatchData(hazard, body) ==
    [hazard EXCEPT !.status = IF Falsy(body.status) THEN @ ELSE body.status,
                   !.severity = IF Falsy(body.severity) THEN @ ELSE body.severity,
                   !.description = IF body.description = NULLTEXT THEN @
                                   ELSE body.description]

HazardPatch(d, body) ==
    IF body.id = NOID
    THEN [db |-> d, resp |-> [status |-> 400, error |-> "Missing hazard ID"]]
    ELSE IF \A h \in d.hazard : h.id # body.id
    THEN [db |-> d, resp |-> [status |-> 500, error |-> "Failed to update hazard"]]
    ELSE LET old == CHOOSE h \in d.hazard : h.id = body.id
             new == PatchData(old, body)
         IN  [db |-> [d EXCEPT !.hazard = (@ \ {old}) \cup {new}],
              resp |-> [status |-> 200, hazard |-> new]]

----------------------------------------------------------------------------
(* The routes over the store *)

InitStore ==
    /\ hazardKeywords = StoreKeywords
    /\ HazardIdle
    /\ WaterIdle
    /\ CallIdle
    /\ db = EmptyDb
    /\ pre = EmptyDb
    /\ req = [op |-> "none"]
    /\ prevReq = [op |-> "none"]
    /\ resp = [status |-> 0]
    /\ nreq = 0

Handled(request, result) ==
    /\ nreq < MaxRequests
    /\ pre' = db
    /\ req' = request
    /\ prevReq' = req
    /\ db' = result.db
    /\ resp' = result.resp
    /\ nreq' = nreq + 1
    /\ UNCHANGED <<hazardVars, waterVars, callVars>>

\* npm run db:seed, before the first request is served
Seed ==
    /\ nreq = 0
    /\ req.op = "none"
    /\ pre' = db
    /\ req' = [op |-> "seed"]
    /\ prevReq' = req
    /\ db' = SeedDb
    /\ UNCHANGED <<resp, nreq, hazardVars, waterVars, callVars>>

Upload ==
    \E fileType \in FileTypes : \E wb \in Workbooks(fileType) :
        Handled([op |-> "upload", type |-> fileType, wb |-> wb, fault |-> NoFault],
                HandleUpload(db, fileType, wb, NoFault))

UploadRejected ==
    \E error \in {"No file provided", "Invalid file type"} :
        Handled([op |-> "rejected"],
                [db |-> db, resp |-> [status |-> 400, error |-> error]])

UploadFault ==
    \E fileType \in FileTypes : \E wb \in Workbooks(fileType) :
        \E fault \in Faults(fileType, wb) :
            Handled([op |-> "upload", type |-> fileType, wb |-> wb, fault |-> fault],
                    HandleUpload(db, fileType, wb, fault))

PostHazard ==
    \E body \in PostBodies :
        Handled([op |-> "post", body |-> body], HazardPost(db, body))

PatchHazard ==
    \E body \in PatchBodies(db) :
        Handled([op |-> "patch", body |-> body], HazardPatch(db, body))

Next == Seed \/ Upload \/ UploadRejected \/ PostHazard \/ PatchHazard

Spec == InitStore /\ [][Next]_vars

NextFault == Seed \/ Upload \/ UploadFault \/ UploadRejected \/ PostHazard \/ PatchHazard

SpecFault == InitStore /\ [][NextFault]_vars

----------------------------------------------------------------------------
(* Claims about the upload route *)

ShiftOf(d, id) == CHOOSE sh \in d.techJournalShift : sh.id = id

\* the bag of the rows of a table as P shows them
BagOf(rows, P(_)) ==
    [p \in {P(r) : r \in rows} |-> Cardinality({r \in rows : P(r) = p})]

\* the stored records without generated ids and without the upload log
Records(d) ==
    [techJournalShift |->
        BagOf(d.techJournalShift,
              LAMBDA r : [date |-> r.date, shiftNumber |-> r.shiftNumber,
                          millProductivityTph |-> r.millProductivityTph]),
     techProductivity |->
        BagOf(d.techProductivity,
              LAMBDA r : [date |-> ShiftOf(d, r.techShiftId).date,
                          shiftNumber |-> ShiftOf(d, r.techShiftId).shiftNumber,
                          hour |-> r.hour, millLine |-> r.millLine,
                          valuePct |-> r.valuePct]),
     techDowntime |->
        BagOf(d.techDowntime,
              LAMBDA r : [date |-> ShiftOf(d, r.techShiftId).date,
                          shiftNumber |-> ShiftOf(d, r.techShiftId).shiftNumber,
                          equipment |-> r.equipment, timeFrom |-> r.timeFrom,
                          timeTo |-> r.timeTo, minutes |-> r.minutes,
                          reasonText |-> r.reasonText]),
     waterDaily |->
        BagOf(d.waterDaily,
              LAMBDA r : [date |-> r.date, meterReading |-> r.meterReading,
                          actualDaily |-> r.actualDaily,
                          actualHourly |-> r.actualHourly,
                          nominalDaily |-> r.nominalDaily,
                          monthLabel |-> r.monthLabel]),
     downtimeDaily |->
        BagOf(d.downtimeDaily,
              LAMBDA r : [date |-> r.date, equipment |-> r.equipment,
                          reasonText |-> r.reasonText, minutes |-> r.minutes,
                          classification |-> r.classification]),
     hazard |->
        BagOf(d.hazard,
              LAMBDA r : [date |-> r.date, sourceType |-> r.sourceType,
                          description |-> r.description, severity |-> r.severity,
                          status |-> r.status, tags |-> r.tags])]

Succeeded == "success" \in DOMAIN resp

\* C1: importing the same workbook a second time, right after a successful
\* import of it, leaves the same bags of shift, productivity, shift-downtime,
\* water, daily-downtime and hazard records (ids and upload log aside) as the
\* first import left, whatever the store held before the first.
C1_ReimportIdempotent ==
    (req.op = "upload" /\ prevReq = req /\ Succeeded) => Records(db) = Records(pre)

\* C1 witness: the tech journal of two days imported twice in a row, the
\* second import deleting and creating anew the hazards of the first
C1_Witness ==
    /\ req.op = "upload"
    /\ prevReq = req
    /\ Succeeded
    /\ req.type = "tech_journal"
    /\ Cardinality(pre.techProductivity) >= 2
    /\ \E h \in pre.hazard : h.sourceType = "tech_journal" /\ h \notin db.hazard
    /\ \E h \in db.hazard : h.sourceType = "tech_journal" /\ h \notin pre.hazard

DateSet(data) == {data[i].date : i \in 1..Len(data)}

\* every date the parsers return a record for
ParsedDates(request) ==
    IF request.wb.corrupt THEN {}
    ELSE IF request.type = "tech_journal"
    THEN DateSet(request.wb.result.productivity.data)
         \cup DateSet(request.wb.result.downtime.data)
         \cup DateSet(request.wb.result.millProductivityTph.data)
    ELSE DateSet(request.wb.result.data)

\* C2: an upload of type tech_journal or downtime leaves unchanged every
\* hazard of another sourceType or on a date it parsed no record for, every
\* record of its own type on a date it parsed no record for, and every record
\* of the other types.
C2_DeletesOnlyTypeOnDates ==
    (req.op = "upload" /\ req.type \in {"tech_journal", "downtime"}) =>
        LET dates == ParsedDates(req) IN
        /\ \A h \in pre.hazard :
              (h.sourceType # req.type \/ h.date \notin dates) => h \in db.hazard
        /\ db.waterDaily = pre.waterDaily
        /\ req.type = "tech_journal" =>
              /\ db.downtimeDaily = pre.downtimeDaily
              /\ \A sh \in pre.techJournalShift :
                    sh.date \notin dates => sh \in db.techJournalShift
              /\ \A r \in pre.techProductivity :
                    ShiftOf(pre, r.techShiftId).date \notin dates
                        => r \in db.techProductivity
              /\ \A r \in pre.techDowntime :
                    ShiftOf(pre, r.techShiftId).date \notin dates
                        => r \in db.techDowntime
        /\ req.type = "downtime" =>
              /\ db.techJournalShift = pre.techJournalShift
              /\ db.techProductivity = pre.techProductivity
              /\ db.techDowntime = pre.techDowntime
              /\ \A r \in pre.downtimeDaily :
                    r.date \notin dates => r \in db.downtimeDaily

\* C2 witness: a tech journal of day 1 is imported over a store with
\* tech-journal records and hazards of days 1 and 2, a downtime hazard and a
\* manual hazard of day 1; the tech-journal hazard of day 1 is deleted
C2_Witness ==
    /\ req.op = "upload"
    /\ req.type = "tech_journal"
    /\ Succeeded
    /\ ParsedDates(req) = {1}
    /\ \E h \in pre.hazard : h.sourceType = "tech_journal" /\ h.date = 1 /\ h \notin db.hazard
    /\ \E h \in pre.hazard : h.sourceType = "tech_journal" /\ h.date = 2
    /\ \E h \in pre.hazard : h.sourceType = "downtime" /\ h.date = 1
    /\ \E h \in pre.hazard : h.sourceType = "manual" /\ h.date = 1
    /\ \E r \in pre.techProductivity : r \notin db.techProductivity
    /\ \E r \in pre.techProductivity : ShiftOf(pre, r.techShiftId).date = 2
    /\ pre.waterDaily # {}
    /\ pre.downtimeDaily # {}

DataTables ==
    {"techJournalShift", "techProductivity", "techDowntime", "waterDaily",
     "downtimeDaily", "hazard"}

\* C3: when the parser throws on the workbook, the upload record created for
\* the request ends failed with the error message, which the response carries
\* as details beside error, and no shift, productivity, downtime, water or
\* hazard record is inserted, updated or deleted.
C3_ParseFailureAborts ==
    (req.op = "upload" /\ req.wb.corrupt) =>
        /\ \E u \in db.upload :
              /\ db.upload = pre.upload \cup {u}
              /\ \A v \in pre.upload : v.id # u.id
              /\ u.status = "failed"
              /\ u.errorMessage # NULLSTR
              /\ {"error", "details"} \subseteq DOMAIN resp
              /\ resp.details = u.errorMessage
        /\ \A t \in DataTables : db[t] = pre[t]

\* C3 witness: a corrupt downtime workbook uploaded to a store that holds
\* daily downtime records and their hazards
C3_Witness ==
    /\ req.op = "upload"
    /\ req.wb.corrupt
    /\ req.type = "downtime"
    /\ pre.downtimeDaily # {}
    /\ \E h \in pre.hazard : h.sourceType = "downtime"
    /\ resp.status = 500

\* C4: after any request has returned, every upload record is completed or
\* failed, whatever step of an import threw.
C4_NeverLeftProcessing ==
    \A u \in db.upload : u.status \in {"completed", "failed"}

----------------------------------------------------------------------------
(* Claims about the hazards route *)

\* C8: every stored hazard's status is open or closed.
C8_StatusOpenOrClosed ==
    \A h \in db.hazard : h.status \in {"open", "closed"}

\* C9: a PATCH leaves every table but the hazards as it was, adds and removes
\* no hazard, leaves every other hazard as it was, and in the hazard it names
\* leaves date, sourceType, sourceRefId and tags as they were and each of
\* status, severity and description as it was unless the request supplies it.
C9_PatchChangesOnlySupplied ==
    req.op = "patch" =>
        /\ \A t \in DOMAIN pre \ {"hazard"} : db[t] = pre[t]
        /\ {h.id : h \in db.hazard} = {h.id : h \in pre.hazard}
        /\ Cardinality(db.hazard) = Cardinality(pre.hazard)
        /\ \A h \in pre.hazard :
              LET new == CHOOSE x \in db.hazard : x.id = h.id IN
              IF h.id # req.body.id THEN new = h
              ELSE /\ new.date = h.date
                   /\ new.sourceType = h.sourceType
                   /\ new.sourceRefId = h.sourceRefId
                   /\ new.tags = h.tags
                   /\ new.status =
                        IF Falsy(req.body.status) THEN h.status ELSE req.body.status
                   /\ new.severity =
                        IF Falsy(req.body.severity) THEN h.severity
                        ELSE req.body.severity
                   /\ new.description =
                        IF req.body.description = NULLTEXT THEN h.description
                        ELSE req.body.description

\* C9 witness: one of several hazards, a detected one with tags, is closed
\* and given a new description, no severity supplied
C9_Witness ==
    /\ req.op = "patch"
    /\ resp.status = 200
    /\ req.body.status = "closed"
    /\ req.body.severity = NULLSTR
    /\ req.body.description # NULLTEXT
    /\ Cardinality(pre.hazard) >= 2
    /\ \E h \in pre.hazard :
          /\ h.id = req.body.id
          /\ h.tags # NULLTEXT
          /\ h.sourceRefId # NOID
          /\ h.status = "open"
          /\ h.description # req.body.description
    /\ \E h \in db.hazard : h.id = req.body.id /\ h.status = "closed"

----------------------------------------------------------------------------
(* lib/config: the signal functions.  Numbers are integers; a percentage    *)
(* (num / den) * 100 is compared with a threshold without dividing.          *)

\* (num / den) * 100 > threshold, the quotient being +-Infinity or NaN when
\* den is 0
PctExceeds(num, den, threshold) ==
    IF den > 0 THEN num * 100 > threshold * den
    ELSE IF den < 0 THEN num * 100 < threshold * den
    ELSE num > 0

Amounts == 0..MaxAmount

\* the thresholds of README "Signal Thresholds" and others around them
Configs ==
    [productivity : [targetPct : {4, 5}, yellowThresholdPct : {0, 15},
                     redThresholdPct : {15, 50}],
     downtime : [greenMaxMinutes : {1, 2}, yellowMaxMinutes : {3}],
     water : [yellowOverPct : {5, 15}, redOverPct : {15, 50}],
     priority : [downtimeWeight : {1}, waterOverWeight : {2},
                 productivityDropWeight : {3}]]

SignalRank(signal) ==
    CASE signal = "green" -> 0
      [] signal = "yellow" -> 1
      [] signal = "red" -> 2

\* a number that need not be whole (a mean): num / den with den > 0
Rat(num, den) == [num |-> num, den |-> den]

\* q > k and q1 < q2 on such numbers
RatExceeds(q, k) == q.num > k * q.den

RatLess(q1, q2) == q1.num * q2.den < q2.num * q1.den

ProductivityMutantRise(currentPct, targetPct) ==
    LET rise == currentPct.num - targetPct * currentPct.den IN
    IF PctExceeds(rise, targetPct * currentPct.den, config.productivity.redThresholdPct)
    THEN "red"
    ELSE IF PctExceeds(rise, targetPct * currentPct.den,
                       config.productivity.yellowThresholdPct)
    THEN "yellow"
    ELSE "green"

\* dropPct = ((targetPct - currentPct) / targetPct) * 100, both terms of the
\* quotient multiplied by currentPct.den
getProductivitySignal(currentPct, targetPct) ==
    LET drop == targetPct * currentPct.den - currentPct.num IN
    IF PctExceeds(drop, targetPct * currentPct.den, config.productivity.redThresholdPct)
    THEN "red"
    ELSE IF PctExceeds(drop, targetPct * currentPct.den,
                       config.productivity.yellowThresholdPct)
    THEN "yellow"
    ELSE "green"

getDowntimeSignal(totalMinutes) ==
    IF RatExceeds(totalMinutes, config.downtime.yellowMaxMinutes) THEN "red"
    ELSE IF RatExceeds(totalMinutes, config.downtime.greenMaxMinutes) THEN "yellow"
    ELSE "green"

WaterMutantNoGuard(actual, nominal) ==
    IF PctExceeds(actual - nominal, nominal, config.water.redOverPct) THEN "red"
    ELSE IF PctExceeds(actual - nominal, nominal, config.water.yellowOverPct)
    THEN "yellow"
    ELSE "green"

getWaterSignal(actual, nominal) ==
    IF nominal <= 0 THEN "green"
    ELSE IF PctExceeds(actual - nominal, nominal, config.water.redOverPct) THEN "red"
    ELSE IF PctExceeds(actual - nominal, nominal, config.water.yellowOverPct)
    THEN "yellow"
    ELSE "green"

InitSignal ==
    /\ HazardIdle
    /\ WaterIdle
    /\ StoreIdle
    /\ hazardKeywords = [high |-> <<>>, medium |-> <<>>, low |-> <<>>]
    /\ config \in Configs
    /\ args = <<>>
    /\ ret = <<>>
    /\ fpc = "ready"

Called(arguments, returned) ==
    /\ fpc = "ready"
    /\ args' = arguments
    /\ ret' = returned
    /\ fpc' = "done"
    /\ UNCHANGED <<config, hazardVars, waterVars, storeVars>>

\* getProductivitySignal with the default target, on two averages
CallProductivity ==
    \E a1 \in Amounts, a2 \in Amounts :
        Called([fn |-> "getProductivitySignal", currentPct |-> <<a1, a2>>],
               <<getProductivitySignal(Rat(a1, 1), config.productivity.targetPct),
                 getProductivitySignal(Rat(a2, 1), config.productivity.targetPct)>>)

CallDowntime ==
    \E totalMinutes \in Amounts :
        Called([fn |-> "getDowntimeSignal", totalMinutes |-> totalMinutes],
               getDowntimeSignal(Rat(totalMinutes, 1)))

CallWater ==
    \E actual \in Amounts, nominal \in -1..MaxAmount :
        Called([fn |-> "getWaterSignal", actual |-> actual, nominal |-> nominal],
               getWaterSignal(actual, nominal))

NextSignal == CallProductivity \/ CallDowntime \/ CallWater

SpecSignal == InitSignal /\ [][NextSignal]_vars

----------------------------------------------------------------------------
(* Claims about the signal functions *)

\* C12: for the configured positive target and thresholds, of two averages
\* the lower one never gets the better signal in green < yellow < red, and an
\* average at or above the target gets green.
C12_ProductivityMonotone ==
    (fpc = "done" /\ args.fn = "getProductivitySignal") =>
        /\ \A i \in {1, 2}, j \in {1, 2} :
              args.currentPct[i] >= args.currentPct[j]
                  => SignalRank(ret[i]) <= SignalRank(ret[j])
        /\ \A i \in {1, 2} :
              args.currentPct[i] >= config.productivity.targetPct => ret[i] = "green"

\* C12 witness: an average above the target and one far below it, with a
\* yellow threshold of 0
C12_Witness ==
    /\ fpc = "done"
    /\ args.fn = "getProductivitySignal"
    /\ config.productivity.yellowThresholdPct = 0
    /\ args.currentPct[1] > config.productivity.targetPct
    /\ args.currentPct[2] < args.currentPct[1]
    /\ ret = <<"green", "red">>

\* C13: getWaterSignal is green whenever nominal <= 0; otherwise it is red
\* when actual exceeds nominal by more than redOverPct percent of nominal,
\* else yellow when by more than yellowOverPct percent, else green.
C13_WaterSignal ==
    (fpc = "done" /\ args.fn = "getWaterSignal") =>
        ret =
            IF args.nominal <= 0 THEN "green"
            ELSE IF args.actual * 100 > (100 + config.water.redOverPct) * args.nominal
            THEN "red"
            ELSE IF args.actual * 100 > (100 + config.water.yellowOverPct) * args.nominal
            THEN "yellow"
            ELSE "green"

\* C13 witness: actual 6 over nominal 5 (20 percent over) with yellowOverPct 5
\* and redOverPct 15 gives red
C13_Witness ==
    /\ fpc = "done"
    /\ args.fn = "getWaterSignal"
    /\ args.actual = 6
    /\ args.nominal = 5
    /\ config.water.yellowOverPct = 5
    /\ config.water.redOverPct = 15
    /\ ret = "red"

----------------------------------------------------------------------------
(* lib/signals: computeSignals *)

Days == 1..MaxDays

\* dateRange undefined
NoRange == [from |-> NULL, to |-> NULL]

DateRanges ==
    {NoRange} \cup {r \in [from : Days, to : Days] : r.from <= r.to}

\* what the signals route may hold of one day: the mean productivity and the
\* downtime total of a day with shifts, the downtime total of a day with
\* daily downtime only, the water pair (actual, nominal) of a day
DayProfiles ==
    {[avgPct |-> NULL, totalMinutes |-> NULL, water |-> <<>>],
     [avgPct |-> 2, totalMinutes |-> 5, water |-> <<6, 5>>],
     [avgPct |-> 5, totalMinutes |-> 0, water |-> <<4, 5>>],
     [avgPct |-> NULL, totalMinutes |-> 2, water |-> <<>>],
     [avgPct |-> NULL, totalMinutes |-> NULL, water |-> <<3, 0>>],
     [avgPct |-> 3, totalMinutes |-> 3, water |-> <<5, 2>>],
     [avgPct |-> 4, totalMinutes |-> 2, water |-> <<5, 5>>]}

\* the entries of the days Holds is true of, by date ascending (orderBy asc)
DaysWith(profiles, Holds(_), Entry(_, _)) ==
    LET RECURSIVE From(_)
        From(d) ==
            IF d > MaxDays THEN <<>>
            ELSE (IF Holds(profiles[d]) THEN <<Entry(d, profiles[d])>> ELSE <<>>)
                 \o From(d + 1)
    IN  From(1)

\* dashboardData of the signals route
DashboardData(profiles) ==
    [productivity |->
        DaysWith(profiles, LAMBDA p : p.avgPct # NULL,
                 LAMBDA d, p : [date |-> d, avgPct |-> p.avgPct]),
     downtime |->
        DaysWith(profiles, LAMBDA p : p.totalMinutes # NULL,
                 LAMBDA d, p : [date |-> d, totalMinutes |-> p.totalMinutes]),
     water |->
        DaysWith(profiles, LAMBDA p : p.water # <<>>,
                 LAMBDA d, p : [date |-> d, actual |-> p.water[1],
                                nominal |-> p.water[2]])]

InRange(entries, dateRange) ==
    IF dateRange = NoRange THEN entries
    ELSE SelectSeq(entries, LAMBDA d : d.date >= dateRange.from /\ d.date <= dateRange.to)

RECURSIVE SumOf(_, _, _)
SumOf(entries, field, i) ==
    IF i > Len(entries) THEN 0 ELSE entries[i][field] + SumOf(entries, field, i + 1)

MeanMutantSum(entries, field) == Rat(SumOf(entries, field, 1), 1)

\* the mean that takes the target for the mean of no entries
MeanMutantEmptyTarget(entries, field) ==
    IF Len(entries) > 0 THEN Rat(SumOf(entries, field, 1), Len(entries))
    ELSE Rat(config.productivity.targetPct, 1)

\* length > 0 ? sum / length : 0
MeanOf(entries, field) ==
    IF Len(entries) > 0 THEN Rat(SumOf(entries, field, 1), Len(entries)) ELSE Rat(0, 1)

LatestMutantFirst(filteredWater) ==
    IF Len(filteredWater) > 0 THEN filteredWater[1] ELSE [actual |-> 0, nominal |-> 0]

\* latestWater, with ?? 0 on its fields when there is none
LatestWater(filteredWater) ==
    IF Len(filteredWater) > 0 THEN filteredWater[Len(filteredWater)]
    ELSE [actual |-> 0, nominal |-> 0]

PriorityItem(type, date, score, signal, value) ==
    [id |-> <<type, date>>, type |-> type, score |-> score, signal |-> signal,
     value |-> value, date |-> date]

\* downtime items also for the days that only reach greenMaxMinutes
DowntimeItemsMutantAtLeast(filteredDowntime) ==
    LET over == SelectSeq(filteredDowntime,
                          LAMBDA d : d.totalMinutes >= config.downtime.greenMaxMinutes)
    IN  [i \in 1..Len(over) |->
            PriorityItem("downtime", over[i].date,
                         Rat(over[i].totalMinutes * config.priority.downtimeWeight, 1),
                         getDowntimeSignal(Rat(over[i].totalMinutes, 1)),
                         Rat(over[i].totalMinutes, 1))]

DowntimeItems(filteredDowntime) ==
    LET over == SelectSeq(filteredDowntime,
                          LAMBDA d : d.totalMinutes > config.downtime.greenMaxMinutes)
    IN  [i \in 1..Len(over) |->
            PriorityItem("downtime", over[i].date,
                         Rat(over[i].totalMinutes * config.priority.downtimeWeight, 1),
                         getDowntimeSignal(Rat(over[i].totalMinutes, 1)),
                         Rat(over[i].totalMinutes, 1))]

\* water items for every day with a positive nominal
WaterItemsMutantAll(filteredWater) ==
    LET over == SelectSeq(filteredWater, LAMBDA w : w.nominal > 0)
    IN  [i \in 1..Len(over) |->
            PriorityItem("water", over[i].date,
                         Rat((over[i].actual - over[i].nominal) * 100
                                 * config.priority.waterOverWeight, over[i].nominal),
                         getWaterSignal(over[i].actual, over[i].nominal),
                         Rat((over[i].actual - over[i].nominal) * 100, over[i].nominal))]

WaterItems(filteredWater) ==
    LET over == SelectSeq(filteredWater,
                          LAMBDA w : /\ w.nominal > 0
                                     /\ PctExceeds(w.actual - w.nominal, w.nominal,
                                                   config.water.yellowOverPct))
    IN  [i \in 1..Len(over) |->
            PriorityItem("water", over[i].date,
                         Rat((over[i].actual - over[i].nominal) * 100
                                 * config.priority.waterOverWeight, over[i].nominal),
                         getWaterSignal(over[i].actual, over[i].nominal),
                         Rat((over[i].actual - over[i].nominal) * 100, over[i].nominal))]

ProductivityItems(filteredProductivity) ==
    LET targetPct == config.productivity.targetPct
        over == SelectSeq(filteredProductivity,
                          LAMBDA p : PctExceeds(targetPct - p.avgPct, targetPct,
                                                config.productivity.yellowThresholdPct))
    IN  [i \in 1..Len(over) |->
            PriorityItem("productivity", over[i].date,
                         Rat((targetPct - over[i].avgPct) * 100
                                 * config.priority.productivityDropWeight, targetPct),
                         getProductivitySignal(Rat(over[i].avgPct, 1), targetPct),
                         Rat((targetPct - over[i].avgPct) * 100, targetPct))]

\* where sort((a, b) => b.score - a.score), which is stable, puts an item
\* among items already in order
RECURSIVE InsertByScore(_, _)
InsertByScore(sorted, item) ==
    IF sorted = <<>> THEN <<item>>
    ELSE IF RatLess(Head(sorted).score, item.score) THEN <<item>> \o sorted
    ELSE <<Head(sorted)>> \o InsertByScore(Tail(sorted), item)

SortMutantNone(items, i, sorted) == items

RECURSIVE SortByScore(_, _, _)
SortByScore(items, i, sorted) ==
    IF i > Len(items) THEN sorted
    ELSE SortByScore(items, i + 1, InsertByScore(sorted, items[i]))

TopItems == 10

\* slice(0, n)
Slice(items, n) == SubSeq(items, 1, IF Len(items) < n THEN Len(items) ELSE n)

\* the candidate items in the order pushed
Candidates(data, dateRange) ==
    DowntimeItems(InRange(data.downtime, dateRange))
    \o WaterItems(InRange(data.water, dateRange))
    \o ProductivityItems(InRange(data.productivity, dateRange))

computeSignals(data, dateRange) ==
    LET filteredProductivity == InRange(data.productivity, dateRange)
        filteredDowntime == InRange(data.downtime, dateRange)
        filteredWater == InRange(data.water, dateRange)
        avgProductivity == MeanOf(filteredProductivity, "avgPct")
        latestWater == LatestWater(filteredWater)
    IN  [productivity |->
            [signal |-> getProductivitySignal(avgProductivity,
                                              config.productivity.targetPct),
             currentPct |-> avgProductivity,
             targetPct |-> config.productivity.targetPct],
         downtime |->
            [signal |-> getDowntimeSignal(MeanOf(filteredDowntime, "totalMinutes")),
             totalMinutes |-> SumOf(filteredDowntime, "totalMinutes", 1)],
         water |->
            [signal |-> getWaterSignal(latestWater.actual, latestWater.nominal),
             actual |-> latestWater.actual,
             nominal |-> latestWater.nominal],
         priorityItems |->
            Slice(SortByScore(Candidates(data, dateRange), 1, <<>>), TopItems)]

ComputeConfigs ==
    {c \in Configs : /\ c.productivity.targetPct = 4
                     /\ c.productivity.redThresholdPct = 50
                     /\ c.water.redOverPct = 15
                     /\ c.water.yellowOverPct = 5}

InitCompute ==
    /\ HazardIdle
    /\ WaterIdle
    /\ StoreIdle
    /\ hazardKeywords = [high |-> <<>>, medium |-> <<>>, low |-> <<>>]
    /\ config \in ComputeConfigs
    /\ args = <<>>
    /\ ret = <<>>
    /\ fpc = "ready"

CallComputeSignals ==
    /\ fpc = "ready"
    /\ \E profiles \in [Days -> DayProfiles], dateRange \in DateRanges :
        Called([fn |-> "computeSignals", data |-> DashboardData(profiles),
                dateRange |-> dateRange],
               computeSignals(DashboardData(profiles), dateRange))

NextCompute == CallComputeSignals

SpecCompute == InitCompute /\ [][NextCompute]_vars

----------------------------------------------------------------------------
(* Claims about computeSignals *)

Computed == fpc = "done" /\ args.fn = "computeSignals"

\* the entries of the call's data whose date is in its range
InRangeSet(entries) ==
    {entries[i] : i \in {j \in 1..Len(entries) :
        \/ args.dateRange = NoRange
        \/ entries[j].date >= args.dateRange.from /\ entries[j].date <= args.dateRange.to}}

\* C14: the water signal, actual and nominal reported are those of the
\* in-range water record with the greatest date (signal green on 0 and 0 when
\* there is none), never of an older record or of an aggregate.
C14_WaterSignalOfLatestDay ==
    Computed =>
        LET inRange == InRangeSet(args.data.water) IN
        IF inRange = {}
        THEN ret.water = [signal |-> "green", actual |-> 0, nominal |-> 0]
        ELSE LET latest == CHOOSE w \in inRange : \A v \in inRange : v.date <= w.date
             IN  ret.water = [signal |-> getWaterSignal(latest.actual, latest.nominal),
                              actual |-> latest.actual, nominal |-> latest.nominal]

\* C14 witness: of three water records the last is out of range, the first is
\* 20 percent over nominal, and the signal is that of the second, green
C14_Witness ==
    /\ Computed
    /\ Len(args.data.water) >= 3
    /\ Cardinality(InRangeSet(args.data.water)) = 2
    /\ args.data.water[1] \in InRangeSet(args.data.water)
    /\ getWaterSignal(args.data.water[1].actual, args.data.water[1].nominal) = "red"
    /\ ret.water.signal = "green"
    /\ ret.water.actual = 4

\* C15: the downtime signal is red when the in-range totals sum to more than
\* yellowMaxMinutes times the number of in-range days, else yellow when to
\* more than greenMaxMinutes times that number, else green; green with no
\* in-range day.
C15_DowntimeSignalOfMean ==
    Computed =>
        LET inRange == InRangeSet(args.data.downtime)
            n == Cardinality(inRange)
            RECURSIVE Total(_)
            Total(S) == IF S = {} THEN 0
                        ELSE LET d == CHOOSE x \in S : TRUE
                             IN  d.totalMinutes + Total(S \ {d})
        IN  ret.downtime.signal =
                IF n = 0 THEN "green"
                ELSE IF Total(inRange) > config.downtime.yellowMaxMinutes * n THEN "red"
                ELSE IF Total(inRange) > config.downtime.greenMaxMinutes * n THEN "yellow"
                ELSE "green"

\* C15 witness: in-range days whose totals sum to more than yellowMaxMinutes
\* while their mean does not exceed it, and the signal is yellow
C15_Witness ==
    /\ Computed
    /\ Cardinality(InRangeSet(args.data.downtime)) >= 2
    /\ Len(args.data.downtime) > Cardinality(InRangeSet(args.data.downtime))
    /\ ret.downtime.totalMinutes > config.downtime.yellowMaxMinutes
    /\ ret.downtime.signal = "yellow"

\* C16: priorityItems has at most 10 entries, scores never increasing along
\* it; its entries are distinct candidates, as many as there are up to 10; and
\* no candidate left out has a greater score than an entry, whatever the
\* metric types.
C16_PriorityItemsTopSorted ==
    Computed =>
        LET items == ret.priorityItems
            candidates == Range(Candidates(args.data, args.dateRange))
        IN  /\ Len(items) <= 10
            /\ \A i \in 1..Len(items), j \in 1..Len(items) :
                  i < j => ~RatLess(items[i].score, items[j].score)
            /\ Range(items) \subseteq candidates
            /\ Cardinality(Range(items)) = Len(items)
            /\ Len(items) = 10 \/ Range(items) = candidates
            /\ \A c \in candidates \ Range(items) : \A x \in Range(items) :
                  ~RatLess(x.score, c.score)

\* C16 witness: more than 10 candidates of all three metric types, an entry
\* of each type kept, a candidate left out, and not all scores equal
C16_Witness ==
    /\ Computed
    /\ Cardinality(Range(Candidates(args.data, args.dateRange))) > 10
    /\ Len(ret.priorityItems) = 10
    /\ {ret.priorityItems[i].type : i \in 1..10} = {"downtime", "water", "productivity"}
    /\ RatLess(ret.priorityItems[10].score, ret.priorityItems[1].score)
    /\ ret.priorityItems[1].type # "downtime"

\* the priority items the days in range are due, as (type, date, score): the
\* metric that exceeds its threshold times the weight of the metric
DueItems ==
    {<<"downtime", d.date, Rat(d.totalMinutes * config.priority.downtimeWeight, 1)>> :
        d \in {x \in InRangeSet(args.data.downtime) :
                  x.totalMinutes > config.downtime.greenMaxMinutes}}
    \cup
    {<<"water", w.date,
       Rat((w.actual - w.nominal) * 100 * config.priority.waterOverWeight, w.nominal)>> :
        w \in {x \in InRangeSet(args.data.water) :
                  /\ x.nominal > 0
                  /\ (x.actual - x.nominal) * 100 > config.water.yellowOverPct * x.nominal}}
    \cup
    {<<"productivity", p.date,
       Rat((config.productivity.targetPct - p.avgPct) * 100
               * config.priority.productivityDropWeight,
           config.productivity.targetPct)>> :
        p \in {x \in InRangeSet(args.data.productivity) :
                  (config.productivity.targetPct - x.avgPct) * 100
                      > config.productivity.yellowThresholdPct
                            * config.productivity.targetPct}}

ReturnedItems ==
    {<<ret.priorityItems[i].type, ret.priorityItems[i].date, ret.priorityItems[i].score>> :
        i \in 1..Len(ret.priorityItems)}

\* C27: a day has a priority item if and only if it strictly exceeds its
\* threshold (downtime over greenMaxMinutes, water over yellowOverPct with a
\* positive nominal, productivity drop over yellowThresholdPct), with score
\* the exceeding metric times the weight; what is returned is cut at 10
C27_ItemIffThresholdExceeded ==
    Computed =>
        /\ ReturnedItems \subseteq DueItems
        /\ Cardinality(DueItems) <= TopItems => ReturnedItems = DueItems
        /\ Cardinality(DueItems) > TopItems => Len(ret.priorityItems) = TopItems

\* C27 witness: an in-range day exactly at greenMaxMinutes without a downtime
\* item, days over each of the three thresholds with their items, nothing cut
C27_Witness ==
    /\ Computed
    /\ Cardinality(DueItems) <= TopItems
    /\ {ret.priorityItems[i].type : i \in 1..Len(ret.priorityItems)}
           = {"downtime", "water", "productivity"}
    /\ \E d \in InRangeSet(args.data.downtime) :
           /\ d.totalMinutes = config.downtime.greenMaxMinutes
           /\ \A i \in 1..Len(ret.priorityItems) :
                  ~(ret.priorityItems[i].type = "downtime"
                        /\ ret.priorityItems[i].date = d.date)
    /\ \E w \in InRangeSet(args.data.water) :
           /\ w.nominal > 0
           /\ \A i \in 1..Len(ret.priorityItems) :
                  ~(ret.priorityItems[i].type = "water"
                        /\ ret.priorityItems[i].date = w.date)

\* C29: no priority item returned has signal green
C29_NoGreenPriorityItem ==
    Computed =>
        \A i \in 1..Len(ret.priorityItems) :
            ret.priorityItems[i].signal \in {"yellow", "red"}

\* C29 witness: items of the three metrics, yellow ones and red ones, while
\* a day in range with water below its nominal has no item
C29_Witness ==
    /\ Computed
    /\ \A t \in {"downtime", "water", "productivity"} :
           \E i \in 1..Len(ret.priorityItems) : ret.priorityItems[i].type = t
    /\ \A sig \in {"yellow", "red"} :
           \E i \in 1..Len(ret.priorityItems) : ret.priorityItems[i].signal = sig
    /\ \E w \in InRangeSet(args.data.water) : w.nominal > 0 /\ w.actual < w.nominal

\* C30: with no productivity aggregate in range currentPct is 0 and the
\* productivity signal is that of 0 (red for a positive target and a red
\* threshold under 100); with no downtime or water in range those signals
\* are green
C30_EmptyRangeSignals ==
    Computed =>
        /\ InRangeSet(args.data.productivity) = {} =>
               /\ ret.productivity.currentPct.num = 0
               /\ ret.productivity.currentPct.den > 0
               /\ (config.productivity.targetPct > 0
                      /\ config.productivity.redThresholdPct < 100)
                     => ret.productivity.signal = "red"
        /\ InRangeSet(args.data.downtime) = {} => ret.downtime.signal = "green"
        /\ InRangeSet(args.data.water) = {} => ret.water.signal = "green"

\* C30 witness: data on some days, none of any kind in the selected range
C30_Witness ==
    /\ Computed
    /\ args.data.productivity # <<>>
    /\ args.data.downtime # <<>>
    /\ args.data.water # <<>>
    /\ InRangeSet(args.data.productivity) = {}
    /\ InRangeSet(args.data.downtime) = {}
    /\ InRangeSet(args.data.water) = {}
    /\ ret.productivity.signal = "red"
    /\ ret.downtime.signal = "green"
    /\ ret.water.signal = "green"

----------------------------------------------------------------------------
(* lib/parsers/utils: cells and texts.  A text is a sequence of characters;  *)
(* "c", "m" stand for the Cyrillic letters of the shift mark, "N" for the    *)
(* numero sign, "h" for the word for hours, "R" and "L" for the words that   *)
(* end the downtime section, "D" for its header, "A" for the average label. *)

Digits == <<"0", "1", "2", "3", "4", "5", "6", "7", "8", "9">>

IsDigit(ch) == \E d \in 1..10 : Digits[d] = ch

DigitValue(ch) == (CHOOSE d \in 1..10 : Digits[d] = ch) - 1

\* parseInt(s, 10) of a run of digits
RECURSIVE parseInt(_)
parseInt(s) ==
    IF s = <<>> THEN 0
    ELSE parseInt(SubSeq(s, 1, Len(s) - 1)) * 10 + DigitValue(s[Len(s)])

AllDigits(s) == \A i \in 1..Len(s) : IsDigit(s[i])

\* a cell of sheet_to_json: a number, or a string ('' for a blank cell)
NumCell(n) == [t |-> "number", n |-> n, s |-> <<>>]

StrCell(s) == [t |-> "string", n |-> 0, s |-> s]

Blank == StrCell(<<>>)

NewLine == "\n"

\* the characters \s matches and trim removes
IsSpace(ch) == ch \in {" ", NewLine}

RECURSIVE TrimLeft(_)
TrimLeft(s) == IF s # <<>> /\ IsSpace(Head(s)) THEN TrimLeft(Tail(s)) ELSE s

RECURSIVE TrimRight(_)
TrimRight(s) ==
    IF s # <<>> /\ IsSpace(s[Len(s)]) THEN TrimRight(SubSeq(s, 1, Len(s) - 1))
    ELSE s

\* String.prototype.trim
trim(s) == TrimLeft(TrimRight(s))

\* replace(/\s+/g, ' ')
RECURSIVE CollapseSpaces(_)
CollapseSpaces(s) ==
    IF s = <<>> THEN s
    ELSE IF IsSpace(s[1]) THEN <<" ">> \o CollapseSpaces(TrimLeft(s))
    ELSE <<s[1]>> \o CollapseSpaces(Tail(s))

\* String(n) of a whole number that is not negative
RECURSIVE NumberToText(_)
NumberToText(n) ==
    IF n < 10 THEN <<Digits[n + 1]>>
    ELSE NumberToText(n \div 10) \o <<Digits[(n % 10) + 1]>>

CellText(cell) == IF cell.t = "number" THEN NumberToText(cell.n) ELSE cell.s

cleanText(cell) == CollapseSpaces(trim(CellText(cell)))

startsWith(s, prefix) ==
    Len(s) >= Len(prefix) /\ SubSeq(s, 1, Len(prefix)) = prefix

\* parseNumeric: null for '', for a string that starts with '#' and for one
\* Number() makes NaN of; Number() of a string of blanks is 0
parseNumeric(cell) ==
    IF cell.t = "number" THEN cell.n
    ELSE IF cell.s = <<>> \/ startsWith(cell.s, <<"#">>) THEN NULL
    ELSE IF trim(cell.s) = <<>> THEN 0
    ELSE IF AllDigits(trim(cell.s)) THEN parseInt(trim(cell.s))
    ELSE NULL

----------------------------------------------------------------------------
(* parseSheetName: /(\d{1,2})\.(\d{1,2})\.(\d{2,4})cm(\d)/i *)

\* the pattern matches at position i with groups of a, b and c digits
SheetMatchAt(name, i, a, b, c) ==
    LET dot1 == i + a
        dot2 == dot1 + 1 + b
        mark == dot2 + 1 + c
    IN  /\ mark + 2 <= Len(name)
        /\ AllDigits(SubSeq(name, i, dot1 - 1))
        /\ name[dot1] = "."
        /\ AllDigits(SubSeq(name, dot1 + 1, dot2 - 1))
        /\ name[dot2] = "."
        /\ AllDigits(SubSeq(name, dot2 + 1, mark - 1))
        /\ toLowerCase(SubSeq(name, mark, mark + 1)) = <<"c", "m">>
        /\ IsDigit(name[mark + 2])

SheetMatches(name) ==
    {m \in (1..Len(name)) \X {1, 2} \X {1, 2} \X {2, 3, 4} :
        SheetMatchAt(name, m[1], m[2], m[3], m[4])}

\* the match a backtracking matcher finds: leftmost, each group as long as
\* it can be, the earlier group first
SheetPreferred(m1, m2) ==
    \/ m1[1] < m2[1]
    \/ m1[1] = m2[1] /\ m1[2] > m2[2]
    \/ m1[1] = m2[1] /\ m1[2] = m2[2] /\ m1[3] > m2[3]
    \/ m1[1] = m2[1] /\ m1[2] = m2[2] /\ m1[3] = m2[3] /\ m1[4] >= m2[4]

\* parseInt(match[4], 10)
ShiftOfDigit(digit) == digit

\* date is [year, month, day] as given to new Date(year, month - 1, day)
parseSheetName(name) ==
    IF SheetMatches(name) = {} THEN [date |-> NULL, shiftNumber |-> NULL]
    ELSE LET m == CHOOSE x \in SheetMatches(name) :
                      \A y \in SheetMatches(name) : SheetPreferred(x, y)
             dot1 == m[1] + m[2]
             dot2 == dot1 + 1 + m[3]
             mark == dot2 + 1 + m[4]
             year == parseInt(SubSeq(name, dot2 + 1, mark - 1))
         IN  [date |-> [year |-> IF year < 100 THEN year + 2000 ELSE year,
                        month |-> parseInt(SubSeq(name, dot1 + 1, dot2 - 1)),
                        day |-> parseInt(SubSeq(name, m[1], dot1 - 1))],
              shiftNumber |-> ShiftOfDigit(DigitValue(name[mark + 2]))]

----------------------------------------------------------------------------
(* parseTechJournal.  A sheet is its name, cell U17, the rows of the         *)
(* productivity window (data[4] onwards, six cells each: the hour and mills *)
(* 1 to 5) and the rows below the downtime header when the sheet has one.   *)
(* A date string is kept as its year, month and day.                         *)

NoCell == [present |-> FALSE, v |-> Blank]

Cell(v) == [present |-> TRUE, v |-> v]

NoSection == [found |-> FALSE, rows |-> <<>>]

Section(rows) == [found |-> TRUE, rows |-> rows]

\* a row of the downtime section: columns A, C, D, F and H
DowntimeRow(a, c, d, f, h) == [a |-> a, c |-> c, d |-> d, f |-> f, h |-> h]

\* a number cell strictly between 0 and 1: n / 1440 of a day
TimeCell(n) == [t |-> "fraction", n |-> n, s |-> <<>>]

productivityStartRow == 4

productivityEndRow == 16

MillCount == 5

AverageLabel == <<"a", "v", "g">>

toISODateString(date) == date

Pad2(n) == IF n < 10 THEN <<"0">> \o NumberToText(n) ELSE NumberToText(n)

\* Math.round(excelTime * 24 * 60) of n / 1440 is n
excelTimeToString(n) == Pad2((n \div 60) % 24) \o <<":">> \o Pad2(n % 60)

\* the time columns: a fraction of a day is formatted, anything else is
\* cleaned text, '' giving null
TimeOf(cell) ==
    IF cell.t = "fraction" THEN excelTimeToString(cell.n) ELSE cleanText(cell)

RECURSIVE DigitRunEnd(_, _)
DigitRunEnd(s, i) ==
    IF i < Len(s) /\ IsDigit(s[i + 1]) THEN DigitRunEnd(s, i + 1) ELSE i

RECURSIVE SkipSpaces(_, _)
SkipSpaces(s, i) ==
    IF i <= Len(s) /\ IsSpace(s[i]) THEN SkipSpaces(s, i + 1) ELSE i

\* /(\d+)\s*h/i: the positions where a run of digits, then blanks, then the
\* word for hours begin
HoursMatches(s) ==
    {i \in 1..Len(s) :
        /\ IsDigit(s[i])
        /\ LET next == SkipSpaces(s, DigitRunEnd(s, i) + 1)
           IN  next <= Len(s) /\ s[next] = "h"}

MinutesOf(cell) ==
    LET minutesStr == cleanText(cell)
    IN  IF HoursMatches(minutesStr) # {}
        THEN LET i == CHOOSE x \in HoursMatches(minutesStr) :
                          \A y \in HoursMatches(minutesStr) : x <= y
             IN  parseInt(SubSeq(minutesStr, i, DigitRunEnd(minutesStr, i)))
                     * 60
        ELSE parseNumeric(cell)

\* if (currentEquipment && (currentReasonText || currentMinutes)) push
Flush(st, dateStr, shiftNumber) ==
    IF st.equipment # <<>>
       /\ (st.reasonText # <<>> \/ (st.minutes # NULL /\ st.minutes # 0))
    THEN [st EXCEPT !.out = Append(@,
             [date |-> dateStr, shiftNumber |-> shiftNumber,
              equipment |-> st.equipment, timeFrom |-> st.timeFrom,
              timeTo |-> st.timeTo, minutes |-> st.minutes,
              reasonText |-> trim(st.reasonText)])]
    ELSE st

NoCurrent ==
    [equipment |-> <<>>, reasonText |-> <<>>, timeFrom |-> NULLTEXT,
     timeTo |-> NULLTEXT, minutes |-> NULL, out |-> <<>>, done |-> FALSE]

\* the loop body with a continuation row replacing the reason text
DowntimeStepMutantOverwrite(st, row, dateStr, shiftNumber) ==
    LET equipmentCell == cleanText(row.a)
    IN  IF st.done THEN st
        ELSE IF includes(equipmentCell, <<"R">>) \/ includes(equipmentCell, <<"L">>)
        THEN [Flush(st, dateStr, shiftNumber) EXCEPT !.done = TRUE]
        ELSE IF startsWith(equipmentCell, <<"N">>)
        THEN [Flush(st, dateStr, shiftNumber) EXCEPT
                 !.equipment = equipmentCell,
                 !.timeFrom = TimeOf(row.c),
                 !.timeTo = TimeOf(row.d),
                 !.minutes = MinutesOf(row.f),
                 !.reasonText = cleanText(row.h)]
        ELSE IF st.equipment # <<>> /\ cleanText(row.h) # <<>>
        THEN [st EXCEPT !.reasonText = cleanText(row.h)]
        ELSE st

\* one row of the loop over the downtime section
DowntimeStep(st, row, dateStr, shiftNumber) ==
    LET equipmentCell == cleanText(row.a)
    IN  IF st.done THEN st
        ELSE IF includes(equipmentCell, <<"R">>) \/ includes(equipmentCell, <<"L">>)
        THEN [Flush(st, dateStr, shiftNumber) EXCEPT !.done = TRUE]
        ELSE IF startsWith(equipmentCell, <<"N">>)
        THEN [Flush(st, dateStr, shiftNumber) EXCEPT
                 !.equipment = equipmentCell,
                 !.timeFrom = TimeOf(row.c),
                 !.timeTo = TimeOf(row.d),
                 !.minutes = MinutesOf(row.f),
                 !.reasonText = cleanText(row.h)]
        ELSE IF st.equipment # <<>> /\ cleanText(row.h) # <<>>
        THEN [st EXCEPT !.reasonText = @ \o <<NewLine>> \o cleanText(row.h)]
        ELSE st

RECURSIVE DowntimeLoop(_, _, _, _)
DowntimeLoop(st, rows, dateStr, shiftNumber) ==
    IF rows = <<>> THEN st
    ELSE DowntimeLoop(DowntimeStep(st, Head(rows), dateStr, shiftNumber),
                      Tail(rows), dateStr, shiftNumber)

\* the downtime records of one sheet: the loop, then "save last record"
SheetDowntime(section, dateStr, shiftNumber) ==
    IF ~section.found THEN <<>>
    ELSE Flush(DowntimeLoop(NoCurrent, section.rows, dateStr, shiftNumber),
               dateStr, shiftNumber).out

\* the hour of a row of the window, NULL when the row is skipped
HourOf(row) ==
    LET hour == parseNumeric(row[1])
    IN  IF row[1].t = "string" /\ toLowerCase(row[1].s) = AverageLabel THEN NULL
        ELSE IF hour < 0 \/ hour > 24 THEN NULL
        ELSE IF hour = 24 THEN 0
        ELSE hour

RECURSIVE MillRecords(_, _, _, _)
MillRecords(row, millIdx, dateStr, shiftNumber) ==
    IF millIdx > MillCount THEN <<>>
    ELSE (IF parseNumeric(row[millIdx + 1]) # NULL
          THEN <<[date |-> dateStr, shiftNumber |-> shiftNumber,
                  hour |-> HourOf(row), millLine |-> millIdx,
                  valuePct |-> parseNumeric(row[millIdx + 1])]>>
          ELSE <<>>)
         \o MillRecords(row, millIdx + 1, dateStr, shiftNumber)

RECURSIVE MillWarnings(_, _, _, _)
MillWarnings(row, millIdx, sheetName, rowIdx) ==
    IF millIdx > MillCount THEN <<>>
    ELSE (IF parseNumeric(row[millIdx + 1]) = NULL
             /\ startsWith(CellText(row[millIdx + 1]), <<"#">>)
          THEN <<[sheet |-> sheetName, row |-> rowIdx + 1,
                  column |-> millIdx + 1]>>
          ELSE <<>>)
         \o MillWarnings(row, millIdx + 1, sheetName, rowIdx)

\* rows productivityStartRow .. productivityEndRow of the sheet
WindowRows(sheet) ==
    1..(IF Len(sheet.data) > productivityEndRow - productivityStartRow + 1
        THEN productivityEndRow - productivityStartRow + 1
        ELSE Len(sheet.data))

RECURSIVE SheetProductivity(_, _, _, _)
SheetProductivity(sheet, i, dateStr, shiftNumber) ==
    IF i \notin WindowRows(sheet) THEN <<>>
    ELSE (IF HourOf(sheet.data[i]) = NULL THEN <<>>
          ELSE MillRecords(sheet.data[i], 1, dateStr, shiftNumber))
         \o SheetProductivity(sheet, i + 1, dateStr, shiftNumber)

RECURSIVE SheetProductivityWarnings(_, _)
SheetProductivityWarnings(sheet, i) ==
    IF i \notin WindowRows(sheet) THEN <<>>
    ELSE (IF HourOf(sheet.data[i]) = NULL THEN <<>>
          ELSE MillWarnings(sheet.data[i], 1, sheet.name,
                            productivityStartRow + i - 1))
         \o SheetProductivityWarnings(sheet, i + 1)

\* cell U17: a record whenever the cell exists, a warning when its value
\* is not numeric
SheetThroughput(sheet, dateStr, shiftNumber) ==
    IF sheet.U17.present
    THEN <<[date |-> dateStr, shiftNumber |-> shiftNumber,
            valueTph |-> parseNumeric(sheet.U17.v)]>>
    ELSE <<>>

SheetThroughputWarnings(sheet) ==
    IF sheet.U17.present /\ parseNumeric(sheet.U17.v) = NULL
    THEN <<[sheet |-> sheet.name, row |-> 17, column |-> 21]>>
    ELSE <<>>

\* if (!date || !shiftNumber) continue
SheetSkipped(sheetName) ==
    \/ parseSheetName(sheetName).shiftNumber = NULL
    \/ parseSheetName(sheetName).shiftNumber = 0

EmptyTechResult ==
    [productivity |-> [data |-> <<>>, warnings |-> <<>>, rowsParsed |-> 0],
     millProductivityTph |-> [data |-> <<>>, warnings |-> <<>>, rowsParsed |-> 0],
     downtime |-> [data |-> <<>>, warnings |-> <<>>, rowsParsed |-> 0]]

Extend(result, data, warnings) ==
    [data |-> result.data \o data, warnings |-> result.warnings \o warnings,
     rowsParsed |-> result.rowsParsed + Len(data)]

ParseSheet(acc, sheet) ==
    IF SheetSkipped(sheet.name) THEN acc
    ELSE LET parsed == parseSheetName(sheet.name)
             dateStr == toISODateString(parsed.date)
         IN  [productivity |->
                  Extend(acc.productivity,
                         SheetProductivity(sheet, 1, dateStr, parsed.shiftNumber),
                         SheetProductivityWarnings(sheet, 1)),
              millProductivityTph |->
                  Extend(acc.millProductivityTph,
                         SheetThroughput(sheet, dateStr, parsed.shiftNumber),
                         SheetThroughputWarnings(sheet)),
              downtime |->
                  Extend(acc.downtime,
                         SheetDowntime(sheet.section, dateStr, parsed.shiftNumber),
                         <<>>)]

RECURSIVE ParseSheets(_, _)
ParseSheets(acc, sheets) ==
    IF sheets = <<>> THEN acc
    ELSE ParseSheets(ParseSheet(acc, Head(sheets)), Tail(sheets))

parseTechJournal(workbook) == ParseSheets(EmptyTechResult, workbook)

----------------------------------------------------------------------------
(* Workbooks for parseTechJournal and the specification that parses them. *)

MaxSheets == 3

HourRow(hour, mill1, mill2) == <<hour, mill1, mill2, Blank, Blank, Blank>>

\* hours 24 and 0 of one shift, a formula error, a section closed by a
\* terminator row
SheetDay1Shift1 ==
    [name |-> <<"0", "1", ".", "0", "1", ".", "2", "6", "c", "m", "1">>,
     U17 |-> Cell(NumCell(7)),
     data |-> <<HourRow(NumCell(24), NumCell(80), StrCell(<<"#">>)),
                HourRow(NumCell(0), NumCell(90), Blank)>>,
     section |-> Section(<<
         DowntimeRow(StrCell(<<"N", "1">>), TimeCell(480), TimeCell(510),
                     NumCell(30), StrCell(<<"a", "b">>)),
         DowntimeRow(Blank, Blank, Blank, Blank, StrCell(<<" ", "C">>)),
         DowntimeRow(StrCell(<<"R">>), Blank, Blank, Blank, Blank)>>)]

\* a four-digit year, the average row, an hour out of range, minutes given
\* in hours, no terminator row
SheetDay1Shift2 ==
    [name |-> <<"1", ".", "1", ".", "2", "0", "2", "6", "c", "m", "2">>,
     U17 |-> NoCell,
     data |-> <<HourRow(StrCell(AverageLabel), NumCell(50), Blank),
                HourRow(NumCell(30), NumCell(60), Blank),
                HourRow(StrCell(<<"8">>), NumCell(70), NumCell(75))>>,
     section |-> Section(<<
         DowntimeRow(StrCell(<<"N", "2", " ">>), StrCell(<<"8", ":", "0", "0">>), Blank,
                     StrCell(<<"2", " ", "h", " ">>), Blank),
         DowntimeRow(StrCell(<<"N", "1">>), Blank, Blank, NumCell(0), Blank),
         DowntimeRow(StrCell(<<"N", "1">>), Blank, Blank, Blank, StrCell(<<" ", " ">>))>>)]

\* a name with shift digit 3
SheetShift3 ==
    [name |-> <<"0", "2", ".", "0", "1", ".", "2", "6", "c", "m", "3">>,
     U17 |-> Cell(Blank),
     data |-> <<HourRow(NumCell(9), NumCell(40), Blank)>>,
     section |-> Section(<<
         DowntimeRow(StrCell(<<"N", "1">>), Blank, Blank, NumCell(5), Blank)>>)]

\* a name with shift digit 0
SheetShift0 ==
    [name |-> <<"0", "1", ".", "0", "1", ".", "2", "6", "c", "m", "0">>,
     U17 |-> Cell(NumCell(3)),
     data |-> <<HourRow(NumCell(9), NumCell(40), Blank)>>,
     section |-> NoSection]

\* a name the pattern does not match
SheetOther ==
    [name |-> <<"S", "h", "e", "e", "t", "1">>,
     U17 |-> Cell(NumCell(3)),
     data |-> <<HourRow(NumCell(9), NumCell(40), Blank)>>,
     section |-> NoSection]

\* the pattern found inside a longer name, in capitals, no section
SheetEmbedded ==
    [name |-> <<"x", "3", ".", "0", "1", ".", "2", "6", "C", "M", "1", " ">>,
     U17 |-> NoCell,
     data |-> <<HourRow(NumCell(24), NumCell(85), NumCell(95))>>,
     section |-> NoSection]

\* a reason row before the first equipment row, an equipment row whose
\* reason comes from two continuation rows, rows after the terminator row
SheetSection ==
    [name |-> <<"0", "3", ".", "0", "1", ".", "2", "6", "c", "m", "2">>,
     U17 |-> NoCell,
     data |-> <<>>,
     section |-> Section(<<
         DowntimeRow(Blank, Blank, Blank, Blank, StrCell(<<"a">>)),
         DowntimeRow(StrCell(<<"N", "1">>), Blank, Blank, Blank, Blank),
         DowntimeRow(Blank, Blank, Blank, Blank, StrCell(<<"b">>)),
         DowntimeRow(Blank, Blank, Blank, Blank, Blank),
         DowntimeRow(Blank, Blank, Blank, Blank, StrCell(<<"C", " ">>)),
         DowntimeRow(StrCell(<<"N", "2">>), Blank, Blank, NumCell(5),
                     StrCell(<<"a", "b">>)),
         DowntimeRow(StrCell(<<"L">>), Blank, Blank, Blank, StrCell(<<"a">>)),
         DowntimeRow(StrCell(<<"N", "1">>), Blank, Blank, NumCell(9),
                     StrCell(<<"b">>))>>)]

TechSheets ==
    {SheetDay1Shift1, SheetDay1Shift2, SheetShift3, SheetShift0, SheetOther,
     SheetEmbedded, SheetSection}

TechBooks == UNION {[1..n -> TechSheets] : n \in 0..MaxSheets}

InitTech ==
    /\ HazardIdle
    /\ WaterIdle
    /\ StoreIdle
    /\ hazardKeywords = [high |-> <<>>, medium |-> <<>>, low |-> <<>>]
    /\ config = <<>>
    /\ args \in TechBooks
    /\ ret = <<>>
    /\ fpc = "ready"

CallParseTechJournal ==
    /\ fpc = "ready"
    /\ ret' = parseTechJournal(args)
    /\ fpc' = "done"
    /\ UNCHANGED <<config, args, hazardVars, waterVars, storeVars>>

NextTech == CallParseTechJournal

SpecTech == InitTech /\ [][NextTech]_vars

\* C18: every record parseTechJournal emits has shiftNumber 1 or 2, and a
\* sheet whose name carries another shift digit contributes no record
C18_ShiftOneOrTwo ==
    fpc = "done" =>
        /\ \A i \in 1..Len(ret.productivity.data) :
               ret.productivity.data[i].shiftNumber \in {1, 2}
        /\ \A i \in 1..Len(ret.millProductivityTph.data) :
               ret.millProductivityTph.data[i].shiftNumber \in {1, 2}
        /\ \A i \in 1..Len(ret.downtime.data) :
               ret.downtime.data[i].shiftNumber \in {1, 2}

----------------------------------------------------------------------------
(* The productivity rows the upload route stores. *)

\* C17: the stored productivity records hold at most one record for a key
\* (date and shift of the owning shift, hour, millLine)
C17_OneRecordPerKey ==
    \A r1, r2 \in db.techProductivity :
        (/\ r1.techShiftId = r2.techShiftId
         /\ r1.hour = r2.hour
         /\ r1.millLine = r2.millLine) => r1 = r2

----------------------------------------------------------------------------
(* parseDowntime (downtime history).  A sheet is its name, its header row   *)
(* (data[1]) and its data rows (data[2] onwards), a row being 19 cells: the *)
(* date, six reasons, six minutes, six classifications.  "Mk", "Ek", "Tk",  *)
(* "Pk" stand for the Cyrillic classification letters, "date" for the       *)
(* header label of the date column, "jan" for a month name.                  *)

EQUIPMENT_COLUMNS == <<"MShR1", "MShTs2", "MShR3", "MShTs4", "OF", "DSK">>

reasonStartCol == 1

minutesStartCol == 7

classStartCol == 13

\* serial number of 31 December 2025, counted from 30 December 1899
Serial2025End == 46022

MonthLengths2026 == <<31, 28, 31, 30, 31, 30, 31, 31, 30, 31, 30, 31>>

RECURSIVE DayOfYear2026(_, _)
DayOfYear2026(n, month) ==
    IF n <= MonthLengths2026[month]
    THEN [year |-> 2026, month |-> month, day |-> n]
    ELSE DayOfYear2026(n - MonthLengths2026[month], month + 1)

\* excelDateToJSDate for the serial numbers of 2026
excelDateToJSDate(excelDate) == DayOfYear2026(excelDate - Serial2025End, 1)

NoDate == [year |-> 0, month |-> 0, day |-> 0]

UpperChar(ch) ==
    CASE ch = "m" -> "M" [] ch = "e" -> "E" [] ch = "t" -> "T"
      [] ch = "p" -> "P" [] ch = "c" -> "C" [] OTHER -> ch

toUpperCase(s) == [i \in 1..Len(s) |-> UpperChar(s[i])]

\* the valid classification of a cell, the Cyrillic letters turned into
\* Latin ones, or null
ValidClass(cell) ==
    LET classification == toUpperCase(cleanText(cell))
    IN  IF Len(classification) # 1 THEN NULLSTR
        ELSE CASE classification[1] \in {"M", "Mk"} -> "M"
               [] classification[1] \in {"E", "Ek"} -> "E"
               [] classification[1] \in {"T", "Tk"} -> "T"
               [] classification[1] \in {"P", "Pk"} -> "P"
               [] OTHER -> NULLSTR

\* parseRussianMonthYear(sheetName) is not null: the name holds a month
MonthYearFound(sheetName) == includes(toLowerCase(sheetName), <<"j", "a", "n">>)

\* the date column: the first header cell that reads "date", else column 0
DateCol(headerRow) ==
    LET found == {col \in 1..Len(headerRow) :
                     toLowerCase(cleanText(headerRow[col])) = <<"d", "a", "t", "e">>}
    IN  IF found = {} THEN 0
        ELSE (CHOOSE col \in found : \A other \in found : col <= other) - 1

\* if (record.reasonText || record.minutes)
Emitted(record) ==
    record.reasonText # NULLTEXT \/ (record.minutes # NULL /\ record.minutes # 0)

RECURSIVE FlushPending(_, _)
FlushPending(data, pending) ==
    IF pending = <<>> THEN data
    ELSE FlushPending(IF Emitted(Head(pending)) THEN Append(data, Head(pending))
                      ELSE data,
                      Tail(pending))

\* pendingRecords.get(key): the position of the record, 0 when there is none
PendingGet(pending, date, equipment) ==
    IF \E i \in 1..Len(pending) :
           pending[i].date = date /\ pending[i].equipment = equipment
    THEN CHOOSE i \in 1..Len(pending) :
             pending[i].date = date /\ pending[i].equipment = equipment
    ELSE 0

\* pendingRecords.set(key, record): a Map keeps the place of a key it has
PendingSet(pending, record) ==
    IF PendingGet(pending, record.date, record.equipment) = 0
    THEN Append(pending, record)
    ELSE [pending EXCEPT ![PendingGet(pending, record.date, record.equipment)] =
              record]

\* the equipment column with a continuation row that always replaces the
\* minutes and the classification
SlotStepMutantOverwrite(pending, row, eqIdx, currentDate, isDateRow) ==
    LET equipment == EQUIPMENT_COLUMNS[eqIdx + 1]
        reasonText == cleanText(row[reasonStartCol + eqIdx + 1])
        minutes == parseNumeric(row[minutesStartCol + eqIdx + 1])
        validClass == ValidClass(row[classStartCol + eqIdx + 1])
        existing == PendingGet(pending, currentDate, equipment)
        fresh == [date |-> currentDate, equipment |-> equipment,
                  reasonText |-> reasonText, minutes |-> minutes,
                  classification |-> validClass]
    IN  IF reasonText = <<>> /\ minutes = NULL /\ validClass = NULLSTR
        THEN pending
        ELSE IF isDateRow THEN PendingSet(pending, fresh)
        ELSE IF existing # 0
        THEN [pending EXCEPT ![existing] =
                 [@ EXCEPT
                     !.reasonText =
                         IF reasonText = <<>> THEN @
                         ELSE IF @ # NULLTEXT THEN @ \o <<NewLine>> \o reasonText
                         ELSE reasonText,
                     !.minutes = minutes,
                     !.classification = validClass]]
        ELSE IF reasonText # <<>> \/ minutes # NULL
        THEN PendingSet(pending, fresh)
        ELSE pending

\* one equipment column of one row
SlotStep(pending, row, eqIdx, currentDate, isDateRow) ==
    LET equipment == EQUIPMENT_COLUMNS[eqIdx + 1]
        reasonText == cleanText(row[reasonStartCol + eqIdx + 1])
        minutes == parseNumeric(row[minutesStartCol + eqIdx + 1])
        validClass == ValidClass(row[classStartCol + eqIdx + 1])
        existing == PendingGet(pending, currentDate, equipment)
        fresh == [date |-> currentDate, equipment |-> equipment,
                  reasonText |-> reasonText, minutes |-> minutes,
                  classification |-> validClass]
    IN  IF reasonText = <<>> /\ minutes = NULL /\ validClass = NULLSTR
        THEN pending
        ELSE IF isDateRow THEN PendingSet(pending, fresh)
        ELSE IF existing # 0
        THEN [pending EXCEPT ![existing] =
                 [@ EXCEPT
                     !.reasonText =
                         IF reasonText = <<>> THEN @
                         ELSE IF @ # NULLTEXT THEN @ \o <<NewLine>> \o reasonText
                         ELSE reasonText,
                     !.minutes = IF minutes # NULL THEN minutes ELSE @,
                     !.classification =
                         IF validClass # NULLSTR THEN validClass ELSE @]]
        ELSE IF reasonText # <<>> \/ minutes # NULL
        THEN PendingSet(pending, fresh)
        ELSE pending

RECURSIVE SlotLoop(_, _, _, _, _)
SlotLoop(pending, row, eqIdx, currentDate, isDateRow) ==
    IF eqIdx >= Len(EQUIPMENT_COLUMNS) THEN pending
    ELSE SlotLoop(SlotStep(pending, row, eqIdx, currentDate, isDateRow),
                  row, eqIdx + 1, currentDate, isDateRow)

NoPending == [lastDate |-> NoDate, pending |-> <<>>, data |-> <<>>]

\* a row whose date cell is a number other than 0 opens a new date
IsDateRow(row, dateCol) ==
    row[dateCol + 1].t = "number" /\ row[dateCol + 1].n # 0

\* one data row: flush on a new date, then the equipment columns
RowStep(st, row, dateCol) ==
    LET opened ==
            IF IsDateRow(row, dateCol)
            THEN [lastDate |-> toISODateString(excelDateToJSDate(row[dateCol + 1].n)),
                  pending |-> <<>>,
                  data |-> FlushPending(st.data, st.pending)]
            ELSE st
    IN  IF opened.lastDate = NoDate THEN opened
        ELSE [opened EXCEPT !.pending =
                 SlotLoop(@, row, 0, opened.lastDate, IsDateRow(row, dateCol))]

RECURSIVE RowLoop(_, _, _)
RowLoop(st, rows, dateCol) ==
    IF rows = <<>> THEN st
    ELSE RowLoop(RowStep(st, Head(rows), dateCol), Tail(rows), dateCol)

\* the records of one sheet appended to data; a sheet of fewer than three
\* rows is passed over
SheetRecords(data, sheet) ==
    IF sheet.rows = <<>> THEN data
    ELSE LET st == RowLoop([NoPending EXCEPT !.data = data], sheet.rows,
                           DateCol(sheet.headerRow))
         IN  FlushPending(st.data, st.pending)

RECURSIVE DowntimeSheets(_, _)
DowntimeSheets(acc, sheets) ==
    IF sheets = <<>> THEN acc
    ELSE DowntimeSheets(
             [data |-> SheetRecords(acc.data, Head(sheets)),
              warnings |->
                  IF MonthYearFound(Head(sheets).name) THEN acc.warnings
                  ELSE Append(acc.warnings, [sheet |-> Head(sheets).name])],
             Tail(sheets))

parseDowntime(workbook) ==
    LET parsed == DowntimeSheets([data |-> <<>>, warnings |-> <<>>], workbook)
    IN  [data |-> parsed.data, warnings |-> parsed.warnings,
         rowsParsed |-> Len(parsed.data)]

----------------------------------------------------------------------------
(* Workbooks for parseDowntime and the specification that parses them. *)

MaxDowntimeRows == 3

\* the three cells of an equipment column: reason, minutes, classification
Slot(reason, minutes, class) == <<reason, minutes, class>>

NoSlot == Slot(Blank, Blank, Blank)

\* a row with values in the columns of the first two equipment slots
Row(date, slot1, slot2) ==
    <<date, slot1[1], slot2[1], Blank, Blank, Blank, Blank,
            slot1[2], slot2[2], Blank, Blank, Blank, Blank,
            slot1[3], slot2[3], Blank, Blank, Blank, Blank>>

\* 1 January 2026 and 1 February 2026
Day1 == NumCell(46023)

Day2 == NumCell(46054)

DowntimeRows ==
    {Row(Day1, Slot(StrCell(<<"a", "b">>), NumCell(30), StrCell(<<"m">>)),
               Slot(Blank, NumCell(0), Blank)),
     Row(Day1, Slot(Blank, Blank, StrCell(<<"Mk">>)),
               Slot(Blank, NumCell(5), Blank)),
     Row(Day2, Slot(StrCell(<<"C">>), Blank, Blank), NoSlot),
     Row(Day2, NoSlot, NoSlot),
     Row(Blank, Slot(StrCell(<<" ", "b">>), Blank, StrCell(<<"E">>)), NoSlot),
     Row(Blank, Slot(Blank, NumCell(0), Blank),
                Slot(StrCell(<<"a">>), Blank, StrCell(<<"x">>))),
     Row(Blank, Slot(Blank, Blank, StrCell(<<"T">>)),
                Slot(Blank, NumCell(7), Blank)),
     Row(StrCell(<<"x">>), NoSlot, Slot(Blank, Blank, StrCell(<<"p">>))),
     Row(Blank, Slot(StrCell(<<"a">>), Blank, Blank), NoSlot)}

HeaderWithDate == <<StrCell(<<"D", "a", "t", "e">>), StrCell(<<"M">>)>>

HeaderWithoutDate == <<Blank, StrCell(<<"M">>)>>

DowntimeSheetPool ==
    {[name |-> <<"J", "a", "n", " ", "2", "0", "2", "6">>,
      headerRow |-> HeaderWithDate, rows |-> rows] :
        rows \in UNION {[1..n -> DowntimeRows] : n \in 0..MaxDowntimeRows}}

\* a second sheet: no month in its name, no date label in its header
SheetLast ==
    [name |-> <<"x">>, headerRow |-> HeaderWithoutDate,
     rows |-> <<Row(Day1, Slot(Blank, NumCell(0), StrCell(<<"P">>)),
                          Slot(StrCell(<<"a">>), NumCell(0), Blank))>>]

DowntimeBooks ==
    {<<sheet>> : sheet \in DowntimeSheetPool}
        \cup {<<sheet, SheetLast>> : sheet \in DowntimeSheetPool}

InitDowntime ==
    /\ HazardIdle
    /\ WaterIdle
    /\ StoreIdle
    /\ hazardKeywords = [high |-> <<>>, medium |-> <<>>, low |-> <<>>]
    /\ config = <<>>
    /\ args \in DowntimeBooks
    /\ ret = <<>>
    /\ fpc = "ready"

CallParseDowntime ==
    /\ fpc = "ready"
    /\ ret' = parseDowntime(args)
    /\ fpc' = "done"
    /\ UNCHANGED <<config, args, hazardVars, waterVars, storeVars>>

NextDowntime == CallParseDowntime

SpecDowntime == InitDowntime /\ [][NextDowntime]_vars

\* the rows after which the pending records are flushed: the row before a
\* row that opens a new date, and the last row of the sheet
FlushPoints(sheet) ==
    {k \in 1..Len(sheet.rows) :
        \/ k = Len(sheet.rows)
        \/ IsDateRow(sheet.rows[k + 1], DateCol(sheet.headerRow))}

PendingAt(sheet, k) ==
    RowLoop(NoPending, SubSeq(sheet.rows, 1, k), DateCol(sheet.headerRow)).pending

\* C19: a pending record is emitted if and only if, when it is flushed, it
\* carries reason text or minutes that are not null, minutes of 0 included
C19_EmittedIffReasonOrMinutes ==
    fpc = "done" =>
        \A s \in 1..Len(args) : \A k \in FlushPoints(args[s]) :
            \A i \in 1..Len(PendingAt(args[s], k)) :
                LET record == PendingAt(args[s], k)[i]
                IN  (\E j \in 1..Len(ret.data) : ret.data[j] = record)
                        <=> (record.reasonText # NULLTEXT \/ record.minutes # NULL)

----------------------------------------------------------------------------
(* The photo detection route: POST with a file and a confidence floor; the  *)
(* classifier is an external service that answers with predictions.         *)
(* Confidences are in hundredths.                                            *)

MaxPredictions == 2

SEVERITY_PRIORITY == [high |-> 3, medium |-> 2, low |-> 1]

TableLabels ==
    {"fire", "car accident", "slop failure", "electricity", "boulder", "cattle"}

\* the names every object inherits from Object.prototype
InheritedNames ==
    {"constructor", "toString", "valueOf", "hasOwnProperty", "isPrototypeOf",
     "propertyIsEnumerable", "toLocaleString", "__proto__"}

\* an inherited value: no severity, yet truthy
INHERITED == "inherited"

\* CLASS_SEVERITY[name], undefined as null
CLASS_SEVERITY(name) ==
    CASE name \in {"fire", "car accident", "slop failure"} -> "high"
      [] name = "electricity" -> "medium"
      [] name \in {"boulder", "cattle"} -> "low"
      [] name \in InheritedNames -> INHERITED
      [] OTHER -> NULLSTR

\* SEVERITY_PRIORITY[current] > SEVERITY_PRIORITY[acc]: false when a side
\* is undefined
PriorityGreater(current, acc) ==
    /\ current \in DOMAIN SEVERITY_PRIORITY
    /\ acc \in DOMAIN SEVERITY_PRIORITY
    /\ SEVERITY_PRIORITY[current] > SEVERITY_PRIORITY[acc]

\* String(p.class || "").toLowerCase() on the labels of the model
LowerLabel(label) ==
    CASE label = "Fire" -> "fire" [] label = "CATTLE" -> "cattle" [] OTHER -> label

NoClass == ""

NoConfidence == -1

DefaultConfidence == 40

\* Number(formData.get("confidence")) || 0.4
ConfidenceFloor(field) == IF field = 0 \/ field = NULL THEN DefaultConfidence ELSE field

Normalized(p) ==
    [name |-> LowerLabel(p.class),
     confidence |-> IF p.confidence = NoConfidence THEN 0 ELSE p.confidence]

Survives(p, confidence) == p.name # "" /\ p.confidence >= confidence

RECURSIVE Detected(_, _)
Detected(predictions, confidence) ==
    IF predictions = <<>> THEN <<>>
    ELSE (IF Survives(Normalized(Head(predictions)), confidence)
          THEN <<Normalized(Head(predictions))>>
          ELSE <<>>) \o Detected(Tail(predictions), confidence)

\* Array.from(new Set(names)): the names in the order of first appearance
RECURSIVE DetectedClasses(_)
DetectedClasses(detectedList) ==
    IF detectedList = <<>> THEN <<>>
    ELSE LET before == DetectedClasses(SubSeq(detectedList, 1, Len(detectedList) - 1))
             name == detectedList[Len(detectedList)].name
         IN  IF \E i \in 1..Len(before) : before[i] = name THEN before
             ELSE Append(before, name)

\* the reducer over the detected classes
RECURSIVE SeverityOf(_, _)
SeverityOf(acc, names) ==
    IF names = <<>> THEN acc
    ELSE LET current == CLASS_SEVERITY(Head(names))
         IN  SeverityOf(IF current = NULLSTR THEN acc
                        ELSE IF acc = NULLSTR THEN current
                        ELSE IF PriorityGreater(current, acc) THEN current
                        ELSE acc,
                        Tail(names))

\* the response of POST; the body as JSON serializes it: a severity that is
\* not a string or null leaves no key in the body
DetectPost(request) ==
    IF ~request.file
    THEN [status |-> 400, detected |-> <<>>, confidence |-> NULL, severity |-> NULLSTR]
    ELSE IF ~request.credentials \/ request.upstream = "threw"
    THEN [status |-> 500, detected |-> <<>>, confidence |-> NULL, severity |-> NULLSTR]
    ELSE IF request.upstream = "failed"
    THEN [status |-> 502, detected |-> <<>>, confidence |-> NULL, severity |-> NULLSTR]
    ELSE LET confidence == ConfidenceFloor(request.confidence)
             detectedList == Detected(request.predictions, confidence)
         IN  IF detectedList = <<>>
             THEN [status |-> 200, detected |-> <<>>, confidence |-> NULL,
                   severity |-> NULLSTR]
             ELSE [status |-> 200, detected |-> DetectedClasses(detectedList),
                   confidence |-> confidence,
                   severity |->
                       IF SeverityOf(NULLSTR, DetectedClasses(detectedList)) = INHERITED
                       THEN "absent"
                       ELSE SeverityOf(NULLSTR, DetectedClasses(detectedList))]

ModelLabels == {"Fire", "electricity", "CATTLE", "person", "constructor", NoClass}

Confidences == {NoConfidence, 30, 50, 90}

Predictions == [class : ModelLabels, confidence : Confidences]

PredictionLists == UNION {[1..n -> Predictions] : n \in 0..MaxPredictions}

DetectRequests ==
    [file : {TRUE}, credentials : {TRUE}, upstream : {"ok"},
     confidence : {NULL, 0, 50, 95}, predictions : PredictionLists]
    \cup [file : BOOLEAN, credentials : BOOLEAN, upstream : {"ok", "failed", "threw"},
          confidence : {NULL}, predictions : {<<[class |-> "Fire", confidence |-> 90]>>}]

InitDetect ==
    /\ HazardIdle
    /\ WaterIdle
    /\ StoreIdle
    /\ hazardKeywords = [high |-> <<>>, medium |-> <<>>, low |-> <<>>]
    /\ config = <<>>
    /\ args \in DetectRequests
    /\ ret = <<>>
    /\ fpc = "ready"

CallDetectPost ==
    /\ fpc = "ready"
    /\ ret' = DetectPost(args)
    /\ fpc' = "done"
    /\ UNCHANGED <<config, args, hazardVars, waterVars, storeVars>>

NextDetect == CallDetectPost

SpecDetect == InitDetect /\ [][NextDetect]_vars

\* the severities of the labels of the table among the predictions that
\* reach the confidence floor
SurvivingSeverities(request) ==
    {CLASS_SEVERITY(LowerLabel(request.predictions[i].class)) :
        i \in {j \in 1..Len(request.predictions) :
                  /\ LowerLabel(request.predictions[j].class) \in TableLabels
                  /\ request.predictions[j].confidence
                         >= ConfidenceFloor(request.confidence)}}

\* C20: predictions below the confidence floor are discarded, and the
\* severity returned is the highest among the surviving labels of the table,
\* null when there is none
C20_SeverityOfSurvivingLabels ==
    (fpc = "done" /\ ret.status = 200) =>
        /\ \A i \in 1..Len(args.predictions) :
               args.predictions[i].confidence < ConfidenceFloor(args.confidence)
                   => \A j \in 1..Len(ret.detected) :
                          ret.detected[j] # LowerLabel(args.predictions[i].class)
                             \/ \E k \in 1..Len(args.predictions) :
                                    /\ LowerLabel(args.predictions[k].class) = ret.detected[j]
                                    /\ args.predictions[k].confidence
                                           >= ConfidenceFloor(args.confidence)
        /\ ret.severity =
               IF SurvivingSeverities(args) = {} THEN NULLSTR
               ELSE CHOOSE sev \in SurvivingSeverities(args) :
                        \A other \in SurvivingSeverities(args) :
                            SEVERITY_PRIORITY[sev] >= SEVERITY_PRIORITY[other]

----------------------------------------------------------------------------
(* The downtime section of the shift journal, read off the rows. *)

\* the sheet names of a workbook are pairwise different
DistinctNames(workbook) ==
    \A a, b \in 1..Len(workbook) : workbook[a].name = workbook[b].name => a = b

\* the downtime records of the result that carry the date and shift of a sheet
SheetOut(sheet) ==
    LET parsed == parseSheetName(sheet.name)
        OfSheet(r) == /\ r.date = toISODateString(parsed.date)
                      /\ r.shiftNumber = parsed.shiftNumber
    IN  SelectSeq(ret.downtime.data, OfSheet)

IsTerminator(row) ==
    includes(cleanText(row.a), <<"R">>) \/ includes(cleanText(row.a), <<"L">>)

\* the first terminator row, or the row after the last
SectionEnd(rows) ==
    IF \E i \in 1..Len(rows) : IsTerminator(rows[i])
    THEN CHOOSE i \in 1..Len(rows) :
             IsTerminator(rows[i]) /\ \A j \in 1..(i - 1) : ~IsTerminator(rows[j])
    ELSE Len(rows) + 1

\* the equipment rows of the section
Openers(rows) ==
    {i \in 1..(SectionEnd(rows) - 1) : startsWith(cleanText(rows[i].a), <<"N">>)}

\* the row that closes the record opened at row i
Closer(rows, i) ==
    IF \E j \in Openers(rows) : j > i
    THEN CHOOSE j \in Openers(rows) :
             j > i /\ \A k \in Openers(rows) : k > i => j <= k
    ELSE SectionEnd(rows)

\* the reason cells of rows first .. last that are not empty, joined by
\* newlines
RECURSIVE ReasonJoin(_, _, _)
ReasonJoin(rows, first, last) ==
    IF first > last THEN <<>>
    ELSE LET rest == ReasonJoin(rows, first + 1, last)
             cell == cleanText(rows[first].h)
         IN  IF cell = <<>> THEN rest
             ELSE IF rest = <<>> THEN cell
             ELSE cell \o <<NewLine>> \o rest

ReasonOf(rows, i) == ReasonJoin(rows, i, Closer(rows, i) - 1)

\* the record opened at row i carries reason text or a minutes value
Carries(rows, i) == ReasonOf(rows, i) # <<>> \/ MinutesOf(rows[i].f) # NULL

ParsedSheets ==
    {k \in 1..Len(args) : ~SheetSkipped(args[k].name) /\ args[k].section.found}

\* C22: every equipment record of the section that carries reason text or a
\* minutes value is in the downtime output of its sheet exactly once, and
\* counted once in rowsParsed
C22_EachRecordOnce ==
    (fpc = "done" /\ DistinctNames(args)) =>
        /\ \A k \in ParsedSheets :
               Len(SheetOut(args[k])) =
                   Cardinality({i \in Openers(args[k].section.rows) :
                                   Carries(args[k].section.rows, i)})
        /\ ret.downtime.rowsParsed = Len(ret.downtime.data)

\* C23: the reasonText of a downtime record is the reason cell of its
\* equipment row and the non-empty reason cells of the continuation rows up
\* to the next equipment row or terminator, in row order, joined by newlines;
\* rows from the first terminator on and rows before the first equipment row
\* are in no record
C23_ReasonTextJoinsRows ==
    (fpc = "done" /\ DistinctNames(args)) =>
        \A k \in ParsedSheets :
            LET rows == args[k].section.rows
                out == SheetOut(args[k])
            IN  /\ \A j \in 1..Len(out) : \E i \in Openers(rows) :
                       /\ out[j].equipment = cleanText(rows[i].a)
                       /\ out[j].reasonText = ReasonOf(rows, i)
                /\ \A i \in Openers(rows) :
                       ReasonOf(rows, i) # <<>> =>
                           \E j \in 1..Len(out) :
                               /\ out[j].equipment = cleanText(rows[i].a)
                               /\ out[j].reasonText = ReasonOf(rows, i)

\* a sheet with reason rows before the first equipment row and after the
\* terminator, whose first record joins two continuation rows
C23_Witness ==
    /\ fpc = "done"
    /\ args = <<SheetSection>>
    /\ \E j \in 1..Len(ret.downtime.data) :
           ret.downtime.data[j].reasonText = <<"b", NewLine, "C">>
    /\ \E j \in 1..Len(ret.downtime.data) :
           ret.downtime.data[j].reasonText = <<"a", "b">>

----------------------------------------------------------------------------
(* The pending records of parseDowntime, read off the rows. *)

\* the pending records after k rows of a sheet, and the date they are for
StateAt(sheet, k) ==
    RowLoop(NoPending, SubSeq(sheet.rows, 1, k), DateCol(sheet.headerRow))

\* a record carries non-empty reason text or minutes that are not null
EmitCondition(record) == record.reasonText # NULLTEXT \/ record.minutes # NULL

\* how many pending records meet the emit condition at the flush points
\* k, k + 1, ... of a sheet
RECURSIVE DueFrom(_, _)
DueFrom(sheet, k) ==
    IF k > Len(sheet.rows) THEN 0
    ELSE (IF k \in FlushPoints(sheet)
          THEN Cardinality({i \in 1..Len(PendingAt(sheet, k)) :
                               EmitCondition(PendingAt(sheet, k)[i])})
          ELSE 0) + DueFrom(sheet, k + 1)

RECURSIVE DueInBook(_)
DueInBook(workbook) ==
    IF workbook = <<>> THEN 0
    ELSE DueFrom(Head(workbook), 1) + DueInBook(Tail(workbook))

\* C24: at a row with a numeric date and at the end of the sheet every pending
\* record that meets the emit condition goes to the output: none is dropped
\* and none is emitted twice
C24_NoneDroppedNoneTwice ==
    fpc = "done" =>
        /\ \A s \in 1..Len(args) : \A k \in FlushPoints(args[s]) :
               \A i \in 1..Len(PendingAt(args[s], k)) :
                   EmitCondition(PendingAt(args[s], k)[i]) =>
                       \E j \in 1..Len(ret.data) :
                           ret.data[j] = PendingAt(args[s], k)[i]
        /\ Len(ret.data) = DueInBook(args)
        /\ ret.rowsParsed = Len(ret.data)

\* the rows k + 1 of a sheet that are continuation rows of an open date
ContinuationPoints(sheet) ==
    {k \in 1..(Len(sheet.rows) - 1) :
        /\ ~IsDateRow(sheet.rows[k + 1], DateCol(sheet.headerRow))
        /\ StateAt(sheet, k).lastDate # NoDate}

SlotOf(equipment) == CHOOSE e \in 1..Len(EQUIPMENT_COLUMNS) : EQUIPMENT_COLUMNS[e] = equipment

\* the record a continuation row makes of a pending record: its cells of the
\* record's equipment slot, and no other cell
Continued(record, row) ==
    LET e == SlotOf(record.equipment)
        reasonText == cleanText(row[reasonStartCol + e])
        minutes == parseNumeric(row[minutesStartCol + e])
        validClass == ValidClass(row[classStartCol + e])
    IN  [date |-> record.date,
         equipment |-> record.equipment,
         reasonText |-> IF reasonText = <<>> THEN record.reasonText
                        ELSE IF record.reasonText = NULLTEXT THEN reasonText
                        ELSE record.reasonText \o <<NewLine>> \o reasonText,
         minutes |-> IF minutes = NULL THEN record.minutes ELSE minutes,
         classification |-> IF validClass = NULLSTR THEN record.classification
                            ELSE validClass]

\* C25: a continuation row appends its reason text to the pending record of
\* its slot after a newline and replaces minutes and classification only by
\* values that are not null; the records of the other slots stay as they are
C25_ContinuationUpdatesOwnSlot ==
    fpc = "done" =>
        \A s \in 1..Len(args) : \A k \in ContinuationPoints(args[s]) :
            LET before == StateAt(args[s], k).pending
                after == StateAt(args[s], k + 1).pending
            IN  /\ Len(after) >= Len(before)
                /\ \A i \in 1..Len(before) :
                       after[i] = Continued(before[i], args[s].rows[k + 1])

\* a record with reason, minutes and classification met a continuation row
\* with a reason and a classification but no minutes, and was emitted
C25_Witness ==
    /\ fpc = "done"
    /\ \E s \in 1..Len(args) : \E k \in ContinuationPoints(args[s]) :
           \E i \in 1..Len(StateAt(args[s], k).pending) :
               LET before == StateAt(args[s], k).pending[i]
                   after == StateAt(args[s], k + 1).pending[i]
               IN  /\ before.minutes = 30
                   /\ before.classification = "M"
                   /\ after.minutes = 30
                   /\ after.classification = "E"
                   /\ after.reasonText = <<"a", "b", NewLine, "b">>
                   /\ Len(StateAt(args[s], k).pending) = 2
                   /\ \E j \in 1..Len(ret.data) : ret.data[j] = after

\* C26: a continuation row with a reason, minutes or a valid classification
\* for a slot that has no pending record makes a pending record of the
\* values of the row
C26_ContinuationCreatesRecord ==
    fpc = "done" =>
        \A s \in 1..Len(args) : \A k \in ContinuationPoints(args[s]) :
            \A e \in 1..Len(EQUIPMENT_COLUMNS) :
                LET st == StateAt(args[s], k)
                    row == args[s].rows[k + 1]
                    reasonText == cleanText(row[reasonStartCol + e])
                    minutes == parseNumeric(row[minutesStartCol + e])
                    validClass == ValidClass(row[classStartCol + e])
                IN  (/\ PendingGet(st.pending, st.lastDate, EQUIPMENT_COLUMNS[e]) = 0
                     /\ (reasonText # <<>> \/ minutes # NULL \/ validClass # NULLSTR))
                    => \E i \in 1..Len(StateAt(args[s], k + 1).pending) :
                           StateAt(args[s], k + 1).pending[i] =
                               [date |-> st.lastDate,
                                equipment |-> EQUIPMENT_COLUMNS[e],
                                reasonText |-> reasonText,
                                minutes |-> minutes,
                                classification |-> validClass]

----------------------------------------------------------------------------
(* Hazards and the downtime rows they come from. *)

\* the date of a row of a downtime table
SourceDate(d, sourceType, row) ==
    IF sourceType = "tech_journal" THEN ShiftOf(d, row.techShiftId).date ELSE row.date

SourceRows(d, sourceType) ==
    IF sourceType = "tech_journal" THEN d.techDowntime ELSE d.downtimeDaily

\* C28: every hazard of source type tech_journal or downtime refers to a
\* stored row of the matching downtime table on the hazard's date, and every
\* stored downtime row whose reason text yields hazards has them
C28_HazardsMatchSourceRows ==
    \A sourceType \in {"tech_journal", "downtime"} :
        /\ \A h \in db.hazard :
               h.sourceType = sourceType =>
                   \E row \in SourceRows(db, sourceType) :
                       /\ row.id = h.sourceRefId
                       /\ SourceDate(db, sourceType, row) = h.date
        /\ \A row \in SourceRows(db, sourceType) :
               \A i \in 1..Len(HazardsOf(row)) :
                   \E h \in db.hazard :
                       /\ h.sourceType = sourceType
                       /\ h.sourceRefId = row.id
                       /\ h.tags = HazardsOf(row)[i].matchedKeyword

\* C28 witness: a tech journal imported over one that had hazards on the same
\* date, hazards of both source types and a manual one stored, the old
\* hazards of the date gone and new ones in their place
C28_Witness ==
    /\ req.op = "upload"
    /\ req.type = "tech_journal"
    /\ Succeeded
    /\ \E h \in pre.hazard : h.sourceType = "tech_journal" /\ h \notin db.hazard
    /\ \E h \in db.hazard : h.sourceType = "tech_journal" /\ h \notin pre.hazard
    /\ \E h \in db.hazard : h.sourceType = "downtime"
    /\ \E h \in db.hazard : h.sourceType = "manual"

-----------------------------------------------------------------------------
(* Two uploads of one type handled at the same time: POST awaits every store
   call, so the calls of two requests interleave call by call *)

\* sheet "01.01.26cm1" of another workbook: the same date and shift as
\* TechSheetA with other values
TechSheetA2 ==
    TechResult(<<Productivity(1, 1, 0, 1, 70)>>,
               <<[date |-> 1, shiftNumber |-> 1, valueTph |-> 6]>>, 0,
               <<TechDowntime(1, 1, "No2", "09:00", 20, <<"C">>),
                 TechDowntime(1, 1, "No3", "10:00", 15, NULLTEXT)>>)

\* a daily-downtime workbook on the date of DowntimeBookA with other rows
DowntimeBookA2 ==
    ParseResult(<<DowntimeDaily(1, "DSK", <<"C">>, 20, "E"),
                  DowntimeDaily(1, "OF", NULLTEXT, 15, NULLSTR)>>, 0)

\* pairs of workbooks of one type that cover the same dates
OverlapPairs ==
    {[type |-> "tech_journal", wb |-> <<Workbook(TechSheetA), Workbook(TechSheetA2)>>],
     [type |-> "tech_journal", wb |-> <<Workbook(TechSheetA), Workbook(TechSheetA)>>],
     [type |-> "downtime", wb |-> <<Workbook(DowntimeBookA), Workbook(DowntimeBookA2)>>],
     [type |-> "downtime", wb |-> <<Workbook(DowntimeBookA), Workbook(DowntimeBookA)>>]}

Uploaders == {1, 2}

\* the locals of one running POST
NotStarted ==
    [pc |-> 0, uploadId |-> NOID, shiftIds |-> {}, shiftIdByKey |-> <<>>,
     downtimeId |-> NOID]

OpsOf(p) == ImportOps(req.type, req.wb[p].result)

\* the store is empty or holds an earlier import of the first workbook
InitOverlap ==
    /\ hazardKeywords = StoreKeywords
    /\ HazardIdle
    /\ WaterIdle
    /\ config = <<>>
    /\ args = <<>>
    /\ fpc = "idle"
    /\ req \in OverlapPairs
    /\ pre \in {EmptyDb, HandleUpload(EmptyDb, req.type, req.wb[1], NoFault).db}
    /\ db = pre
    /\ ret = [p \in Uploaders |-> NotStarted]
    /\ prevReq = [op |-> "none"]
    /\ resp = [status |-> 0]
    /\ nreq = 0

\* prisma.upload.create
CreateUploadRecord(p) ==
    /\ ret[p].pc = 0
    /\ db' = Insert(db, "upload",
                    [type |-> req.type, status |-> "processing", rowsParsed |-> 0,
                     warningsCount |-> 0, errorMessage |-> NULLSTR])
    /\ ret' = [ret EXCEPT ![p].pc = 1, ![p].uploadId = NewId(db)]
    /\ UNCHANGED <<hazardVars, waterVars, pre, req, prevReq, resp, nreq, config, args, fpc>>

\* the next awaited store call of the import
StoreStep(p) ==
    /\ ret[p].pc >= 1
    /\ ret[p].pc <= Len(OpsOf(p))
    /\ LET m == StoreCall([db |-> db, shiftIds |-> ret[p].shiftIds,
                           shiftIdByKey |-> ret[p].shiftIdByKey,
                           downtimeId |-> ret[p].downtimeId],
                          OpsOf(p)[ret[p].pc], ret[p].uploadId)
       IN  /\ db' = m.db
           /\ ret' = [ret EXCEPT ![p].pc = @ + 1, ![p].shiftIds = m.shiftIds,
                                 ![p].shiftIdByKey = m.shiftIdByKey,
                                 ![p].downtimeId = m.downtimeId]
    /\ UNCHANGED <<hazardVars, waterVars, pre, req, prevReq, resp, nreq, config, args, fpc>>

\* prisma.upload.update to completed, then the response
CompleteUpload(p) ==
    /\ ret[p].pc = Len(OpsOf(p)) + 1
    /\ db' = UpdateUpload(db, ret[p].uploadId, "completed",
                          RowsParsed(req.type, req.wb[p].result),
                          WarningsCount(req.type, req.wb[p].result), NULLSTR)
    /\ ret' = [ret EXCEPT ![p].pc = @ + 1]
    /\ UNCHANGED <<hazardVars, waterVars, pre, req, prevReq, resp, nreq, config, args, fpc>>

Responded(p) == ret[p].pc = Len(OpsOf(p)) + 2

NextOverlap ==
    \E p \in Uploaders :
        \/ CreateUploadRecord(p)
        \/ StoreStep(p)
        \/ CompleteUpload(p)

SpecOverlap == InitOverlap /\ [][NextOverlap]_vars

\* the store after upload first has run to its end and then upload last
OneAfterTheOther(first, last) ==
    HandleUpload(HandleUpload(pre, req.type, req.wb[first], NoFault).db,
                 req.type, req.wb[last], NoFault).db

\* C21: when two uploads of one type that cover the same dates have both
\* responded, whatever the order their store calls were served in, the stored
\* records and hazards are those left by one of the two running after the
\* other: no date holds rows of both uploads or a row twice.
C21_LastWriteWins ==
    (\A p \in Uploaders : Responded(p)) =>
        \E last \in Uploaders :
            Records(db) = Records(OneAfterTheOther(3 - last, last))

====
